---- MODULE Spec2Model ----
(***************************************************************************)
(* A model of the retrieval core of the support agent: the FAISS vector    *)
(* store, the BM25 keyword scorer, the hybrid ranker and the RAG pipeline  *)
(* with its upload endpoints.                                              *)
(*                                                                         *)
(* Floats are fixed-point integers in units of 1/1000 (One = 1.0).         *)
(* Texts are sequences of words; passages are named by their id.           *)
(***************************************************************************)
EXTENDS Integers, Sequences, FiniteSets, TLC

VARIABLES
    bm25,      \* the BM25 scorer's attributes (of the hybrid service, or standalone)
    bmDocs,    \* ghost: the corpus handed to the last fit
    bmFits,    \* ghost: number of fit calls so far (capped)
    bmOut,     \* the value returned by the last BM25.score call
    bmQuery,   \* ghost: the query of the last BM25.score call
    normIn,    \* argument of the last _normalize_scores call
    normOut,   \* its return value
    vs,        \* the FAISSVectorStore: dimension, index (d, vectors), documents
    disk,      \* the save directory: faiss.index and documents.pkl
    hy,        \* the HybridSearchService: _initialized, _doc_map, weights, use_reranking
    rag,       \* the RAGPipeline: _initialized, and whether it searches in hybrid mode
    uploads,   \* the files in the upload directory
    deleted,   \* per file: deleted, and whether reindex_all has completed since
    memory,    \* the pipeline's HybridMemory
    out,       \* the value returned by the last store / ranker / pipeline call
    args,      \* ghost: the arguments of that call
    pc         \* which operation ran last ("idle": its result has been taken)

vars == <<bm25, bmDocs, bmFits, bmOut, bmQuery, normIn, normOut, vs, disk, hy, rag, uploads,
          deleted, memory,
          out, args, pc>>

-----------------------------------------------------------------------------
(* Bounds of the model *)

MaxCorpus == 3
MaxScores == 3
MaxScoreVal == 3
MaxStore == 3
MaxBatch == 2
MaxTopK == 3
MaxHyTopK == 2
MaxIndexed == 5
MaxLoadStore == 2
MaxText == 3
MaxSentences == 3
MaxOverlap == 2
MaxTickets == 2

-----------------------------------------------------------------------------
(* Fixed point *)

One == 1000
Half == 500

(* k1 = K1Halves / 2 = 1.5 and b = BQuarters / 4 = 0.75 *)
K1Halves == 3
BQuarters == 3

-----------------------------------------------------------------------------
(* Sequences *)

RECURSIVE SeqSum(_)
SeqSum(s) == IF s = <<>> THEN 0 ELSE Head(s) + SeqSum(Tail(s))

Range(s) == {s[i] : i \in DOMAIN s}

SeqsUpTo(S, n) == UNION {[1..k -> S] : k \in 0..n}

Take(s, n) == SubSeq(s, 1, IF n < Len(s) THEN n ELSE Len(s))

SeqMin(s) == CHOOSE x \in Range(s) : \A y \in Range(s) : x <= y
SeqMax(s) == CHOOSE x \in Range(s) : \A y \in Range(s) : x >= y

(* list.sort(key=..., reverse=True): descending by key, equal keys keep    *)
(* their original relative order (the sort is stable).                     *)
RECURSIVE InsertDesc(_, _, _)
InsertDesc(sorted, i, keys) ==
    IF sorted = <<>> THEN <<i>>
    ELSE IF keys[Head(sorted)] >= keys[i]
         THEN <<Head(sorted)>> \o InsertDesc(Tail(sorted), i, keys)
         ELSE <<i>> \o sorted

RECURSIVE OrderDescFrom(_, _, _)
OrderDescFrom(acc, i, keys) ==
    IF i > Len(keys) THEN acc
    ELSE OrderDescFrom(InsertDesc(acc, i, keys), i + 1, keys)

(* the positions of keys in sorted order *)
OrderDesc(keys) == OrderDescFrom(<<>>, 1, keys)

SortDesc(s, keys) == LET order == OrderDesc(keys) IN [j \in DOMAIN s |-> s[order[j]]]

-----------------------------------------------------------------------------
(* Documents: id, title and content (word sequences) *)

BaseIds == <<"b1", "b2">>
FileNames == {"f1", "f2"}
DocIds == {"b1", "b2", "f1c0", "f2c0", "f2c1", "e0"}

Title(d) ==
    CASE d = "b1" -> <<"DNS">>
      [] d = "b2" -> <<"Pay">>
      [] d = "f1c0" -> <<"pay">>
      [] d = "f2c0" -> <<"whois">>
      [] d = "f2c1" -> <<"whois">>
      [] OTHER -> <<>>

Content(d) ==
    CASE d = "b1" -> <<"dns", "the">>
      [] d = "b2" -> <<"the">>
      [] d = "f1c0" -> <<"pay", "pay", "dns">>
      [] d = "f2c0" -> <<"whois">>
      [] d = "f2c1" -> <<"the", "dns">>
      [] OTHER -> <<>>

StoreDocIds == {"b1", "b2", "f1c0"}

Queries == { <<>>, <<"zzz">>, <<"dns">>, <<"DNS", "pay">>, <<"whois", "zzz">>,
             <<"the", "the">> }

-----------------------------------------------------------------------------
(* BM25 keyword scorer *)

Lower(w) == CASE w = "DNS" -> "dns" [] w = "Pay" -> "pay" [] OTHER -> w

Tokenize(text) == [i \in DOMAIN text |-> Lower(text[i])]

BM25New ==
    [corpus |-> <<>>, doc_ids |-> <<>>, doc_lengths |-> <<>>,
     avg_doc_length |-> <<0, 1>>, doc_freqs |-> <<>>, idf |-> <<>>, n_docs |-> 0]

(* round(1000 * ln((n - df + 0.5) / (df + 0.5) + 1)) *)
IdfTable ==
    << <<288>>,
       <<693, 182>>,
       <<981, 470, 134>>,
       <<1204, 693, 357, 105>>,
       <<1386, 875, 539, 288, 87>>,
       <<1540, 1030, 693, 442, 241, 74>> >>

Idf(n, df) == IF n \in DOMAIN IdfTable /\ df \in DOMAIN IdfTable[n]
              THEN IdfTable[n][df] ELSE 1

(* Counter: a function on the keys counted so far *)
CounterInc(c, keys) ==
    [k \in DOMAIN c \cup keys |->
        (IF k \in DOMAIN c THEN c[k] ELSE 0) + (IF k \in keys THEN 1 ELSE 0)]

RECURSIVE FitLoop(_, _)
FitLoop(self, documents) ==
    IF documents = <<>> THEN self
    ELSE LET doc == Head(documents)
             tokens == Tokenize(Title(doc) \o Content(doc))
         IN FitLoop([self EXCEPT
                        !.corpus = Append(@, tokens),
                        !.doc_ids = Append(@, doc),
                        !.doc_lengths = Append(@, Len(tokens)),
                        !.doc_freqs = CounterInc(@, Range(tokens))],
                    Tail(documents))

FitStatsKeepIdf(self, documents) ==
    LET n == Len(documents)
    IN [self EXCEPT
           !.n_docs = n,
           !.avg_doc_length = <<SeqSum(self.doc_lengths), IF n > 1 THEN n ELSE 1>>,
           !.idf = [t \in DOMAIN self.idf \cup DOMAIN self.doc_freqs |->
                       IF t \in DOMAIN self.doc_freqs THEN Idf(n, self.doc_freqs[t])
                       ELSE self.idf[t]]]

FitStats(self, documents) ==
    LET n == Len(documents)
    IN [self EXCEPT
           !.n_docs = n,
           !.avg_doc_length = <<SeqSum(self.doc_lengths), IF n > 1 THEN n ELSE 1>>,
           !.idf = [t \in DOMAIN self.doc_freqs |-> Idf(n, self.doc_freqs[t])]]

FitResetKeepFreqs(self) ==
    [self EXCEPT !.corpus = <<>>, !.doc_ids = <<>>, !.doc_lengths = <<>>]

FitReset(self) ==
    [self EXCEPT !.corpus = <<>>, !.doc_ids = <<>>, !.doc_lengths = <<>>,
                 !.doc_freqs = <<>>]

BM25Fit(self, documents) == FitStats(FitLoop(FitReset(self), documents), documents)

TermFreq(tokens, term) == Cardinality({i \in DOMAIN tokens : tokens[i] = term})

(* One query term's contribution to one document's score, and whether the  *)
(* division doc_len / avg_doc_length is by zero.                           *)
TermDivZero(self, term) == term \in DOMAIN self.idf /\ self.avg_doc_length[1] = 0

(* tf + k1 * (1 - b + b * doc_len / avg_doc_length), times 8 * sum, where  *)
(* avg_doc_length is sum / cnt                                             *)
Denominator(self, i, tf) ==
    LET sum == self.avg_doc_length[1]
        cnt == self.avg_doc_length[2]
    IN 8 * tf * sum
       + K1Halves * ((4 - BQuarters) * sum + BQuarters * self.doc_lengths[i] * cnt)

TermScore(self, i, term) ==
    IF term \notin DOMAIN self.idf \/ self.avg_doc_length[1] = 0 THEN 0
    ELSE LET tf == TermFreq(self.corpus[i], term)
             sum == self.avg_doc_length[1]
             numerator == 4 * tf * (K1Halves + 2) * sum
             denominator == Denominator(self, i, tf)
         IN (self.idf[term] * numerator) \div denominator

RECURSIVE QuerySum(_, _, _)
QuerySum(self, i, query_tokens) ==
    IF query_tokens = <<>> THEN 0
    ELSE TermScore(self, i, Head(query_tokens)) + QuerySum(self, i, Tail(query_tokens))

PairScores(pairs) == [i \in DOMAIN pairs |-> pairs[i][2]]

ScoreAll(self, query_tokens) ==
    [i \in DOMAIN self.corpus |-> <<self.doc_ids[i], QuerySum(self, i, query_tokens)>>]

ScoreUnsorted(self, query) == ScoreAll(self, Tokenize(query))

ScoreSkipZero(self, query) ==
    LET all == ScoreAll(self, Tokenize(query))
        kept == SelectSeq(all, LAMBDA p : p[2] > 0)
    IN SortDesc(kept, PairScores(kept))

BM25Score(self, query) ==
    LET scores == ScoreAll(self, Tokenize(query))
    IN SortDesc(scores, PairScores(scores))

BM25Raises(self, query) ==
    self.corpus # <<>> /\ \E t \in Range(Tokenize(query)) : TermDivZero(self, t)

-----------------------------------------------------------------------------
(* HybridSearchService._normalize_scores *)

NormalizeNoGuard(scores) ==
    IF scores = <<>> THEN <<>>
    ELSE LET min_s == SeqMin(scores)
             max_s == SeqMax(scores)
         IN [i \in DOMAIN scores |->
                IF max_s = min_s THEN 0 ELSE ((scores[i] - min_s) * One) \div (max_s - min_s)]

NormalizeScores(scores) ==
    IF scores = <<>> THEN <<>>
    ELSE LET min_s == SeqMin(scores)
             max_s == SeqMax(scores)
         IN IF max_s = min_s THEN [i \in DOMAIN scores |-> Half]
            ELSE [i \in DOMAIN scores |-> ((scores[i] - min_s) * One) \div (max_s - min_s)]

-----------------------------------------------------------------------------
(* FAISSVectorStore *)

EmbDim == 384
TopKDefault == 5
ThresholdDefault == 300

(* IndexFlatIP(d): the vectors in insertion order, each named by the       *)
(* passage whose title and content it embeds                               *)
IndexFlatIP(d) == [d |-> d, vecs |-> <<>>]

VSNew == [dimension |-> EmbDim, index |-> IndexFlatIP(EmbDim), documents |-> <<>>]

NTotal(self) == Len(self.index.vecs)

(* An optional argument: given or left None *)
NoArg == [given |-> FALSE, val |-> 0]
Arg(v) == [given |-> TRUE, val |-> v]

(* embed_fails: the embedding provider raises. index.add asserts that the  *)
(* vectors have the index's dimension.                                     *)
AddRaises(self, documents, embed_fails) ==
    documents # <<>> /\ (embed_fails \/ self.index.d # EmbDim)

(* the value add_documents returns when it does not raise *)
AddReturns(documents) == Len(documents)

AddDocumentsPassagesOnly(self, documents, embed_fails) ==
    IF documents = <<>> THEN self
    ELSE IF AddRaises(self, documents, embed_fails)
    THEN [self EXCEPT !.documents = @ \o documents]
    ELSE [self EXCEPT !.index.vecs = @ \o documents,
                      !.documents = @ \o documents]

AddDocuments(self, documents, embed_fails) ==
    IF documents = <<>> \/ AddRaises(self, documents, embed_fails) THEN self
    ELSE [self EXCEPT !.index.vecs = @ \o documents,
                      !.documents = @ \o documents]

VSClear(self) == [self EXCEPT !.index = IndexFlatIP(self.dimension), !.documents = <<>>]

(* top_k or settings.top_k_results *)
TopKOrDefault(top_k) == IF top_k.given /\ top_k.val # 0 THEN top_k.val ELSE TopKDefault

(* threshold if threshold is not None else settings.similarity_threshold *)
ThresholdOrDefault(threshold) == IF threshold.given THEN threshold.val ELSE ThresholdDefault

(* index.search(q, n): the n best inner products, best first. sim gives    *)
(* the product of the query with each passage's vector.                    *)
IndexSearch(index, sim, n) ==
    LET idx == [i \in DOMAIN index.vecs |-> i]
        keys == [i \in DOMAIN index.vecs |-> sim[index.vecs[i]]]
    IN Take(SortDesc(idx, keys), n)

SearchHits(self, sim, top_k, threshold) ==
    LET k == TopKOrDefault(top_k)
        n == IF k < NTotal(self) THEN k ELSE NTotal(self)
        hits == IndexSearch(self.index, sim, n)
    IN SelectSeq(hits, LAMBDA i : sim[self.index.vecs[i]] >= ThresholdOrDefault(threshold))

(* self.documents[idx] is out of range, or RetrievedContext rejects a      *)
(* similarity_score outside [0, 1]                                         *)
SearchRaises(self, sim, top_k, threshold) ==
    /\ NTotal(self) # 0
    /\ \/ self.index.d # EmbDim
       \/ \E i \in Range(SearchHits(self, sim, top_k, threshold)) :
             \/ i > Len(self.documents)
             \/ sim[self.index.vecs[i]] < 0
             \/ sim[self.index.vecs[i]] > One

VSSearch(self, sim, top_k, threshold) ==
    IF NTotal(self) = 0 \/ SearchRaises(self, sim, top_k, threshold) THEN <<>>
    ELSE LET hits == SearchHits(self, sim, top_k, threshold)
         IN [j \in DOMAIN hits |->
                [id |-> self.documents[hits[j]], score |-> sim[self.index.vecs[hits[j]]]]]

(* the store initialize_vector_store works on: exists says that the        *)
(* singleton is there; if it is not, a new one is made first               *)
InitializeTarget(store, exists, force_reinit) ==
    IF ~exists THEN VSNew ELSE IF force_reinit THEN VSClear(store) ELSE store

(* the documents it adds *)
InitializeAddsAll(store, exists, documents, force_reinit) == documents

InitializeAdds(store, exists, documents, force_reinit) ==
    IF ~exists \/ force_reinit THEN documents
    ELSE SelectSeq(documents, LAMBDA d : d \notin Range(store.documents))

InitializeVectorStoreRaises(store, exists, documents, force_reinit, embed_fails) ==
    AddRaises(InitializeTarget(store, exists, force_reinit),
              InitializeAdds(store, exists, documents, force_reinit), embed_fails)

InitializeVectorStore(store, exists, documents, force_reinit, embed_fails) ==
    AddDocuments(InitializeTarget(store, exists, force_reinit),
                 InitializeAdds(store, exists, documents, force_reinit), embed_fails)

(* the directory save writes and load reads *)
NoDisk ==
    [has_index |-> FALSE, index |-> IndexFlatIP(EmbDim),
     has_documents |-> FALSE, documents |-> <<>>,
     intact |-> FALSE, saved_ids |-> <<>>, saved_ntotal |-> 0]

VSSaveIndexOnly(self, dir) ==
    [dir EXCEPT !.has_index = TRUE, !.index = self.index,
                !.intact = TRUE, !.saved_ids = self.documents, !.saved_ntotal = NTotal(self)]

(* intact, saved_ids, saved_ntotal: ghosts, what the store held at the save *)
VSSave(self, dir) ==
    [has_index |-> TRUE, index |-> self.index,
     has_documents |-> TRUE, documents |-> self.documents,
     intact |-> TRUE, saved_ids |-> self.documents, saved_ntotal |-> NTotal(self)]

(* save when opening documents.pkl raises: faiss.index is already written *)
VSSaveInterrupted(self, dir) ==
    [dir EXCEPT !.has_index = TRUE, !.index = self.index,
                !.intact = FALSE, !.saved_ids = <<>>, !.saved_ntotal = 0]

VSLoadBothOrNothing(self, dir) ==
    IF dir.has_index /\ dir.has_documents
    THEN [self EXCEPT !.index = dir.index, !.documents = dir.documents]
    ELSE self

VSLoad(self, dir) ==
    [self EXCEPT !.index = IF dir.has_index THEN dir.index ELSE @,
                 !.documents = IF dir.has_documents THEN dir.documents ELSE @]

(* a store constructed with another dimension (another embedding model)   *)
OtherDim == 2 * EmbDim

VSOther(documents) ==
    [dimension |-> OtherDim, index |-> [d |-> OtherDim, vecs |-> documents],
     documents |-> documents]

-----------------------------------------------------------------------------
(* HybridSearchService *)

SemanticWeightDefault == 7
KeywordWeightDefault == 3
SemanticThresholdDefault == 300

(* weights in tenths *)
HybridNew(semantic_weight, keyword_weight, use_reranking) ==
    [initialized |-> FALSE, doc_map |-> {},
     semantic_weight |-> semantic_weight, keyword_weight |-> keyword_weight,
     use_reranking |-> use_reranking]

(* index_documents up to the vector store: _doc_map and the BM25 fit *)
IndexDocumentsHy(self, documents, raises) ==
    [self EXCEPT !.doc_map = Range(documents),
                 !.initialized = IF raises THEN @ ELSE TRUE]

IndexDocumentsAdds(store) == Len(store.documents) = 0

IndexDocumentsVS(store, documents, embed_fails) ==
    IF IndexDocumentsAdds(store) THEN AddDocuments(store, documents, embed_fails) ELSE store

IndexDocumentsRaises(store, documents, embed_fails) ==
    IndexDocumentsAdds(store) /\ AddRaises(store, documents, embed_fails)

(* a dict built from (key, value) pairs in order: the last value of a key stays *)
LastOf(keys, vals) ==
    [k \in Range(keys) |->
        LET last == CHOOSE i \in DOMAIN keys :
                        keys[i] = k /\ \A j \in DOMAIN keys : keys[j] = k => j <= i
        IN vals[last]]

(* iterating a set of ids: in one order or in the opposite one *)
IdRank(d) ==
    CASE d = "b1" -> 1 [] d = "b2" -> 2 [] d = "f1c0" -> 3
      [] d = "f2c0" -> 4 [] d = "f2c1" -> 5 [] OTHER -> 6

RECURSIVE IterSet(_, _)
IterSet(S, ascending) ==
    IF S = {} THEN <<>>
    ELSE LET x == CHOOSE x \in S : \A y \in S :
                      IF ascending THEN IdRank(x) <= IdRank(y) ELSE IdRank(x) >= IdRank(y)
         IN <<x>> \o IterSet(S \ {x}, ascending)

Combined(self, sem_score, kw_score) ==
    (self.semantic_weight * sem_score + self.keyword_weight * kw_score) \div 10

MergeCandidatesSemanticOnly(self, semantic_scores, bm25_scores, ascending) ==
    LET all_doc_ids == IterSet(DOMAIN semantic_scores, ascending)
        known == SelectSeq(all_doc_ids, LAMBDA d : d \in self.doc_map)
    IN [i \in DOMAIN known |->
           LET sem_score == semantic_scores[known[i]]
               kw_score == IF known[i] \in DOMAIN bm25_scores
                           THEN bm25_scores[known[i]] ELSE 0
           IN [id |-> known[i], semantic_score |-> sem_score, keyword_score |-> kw_score,
               combined_score |-> Combined(self, sem_score, kw_score),
               reranked |-> FALSE, rerank_score |-> 0]]

MergeCandidates(self, semantic_scores, bm25_scores, ascending) ==
    LET all_doc_ids == IterSet(DOMAIN semantic_scores \cup DOMAIN bm25_scores, ascending)
        known == SelectSeq(all_doc_ids, LAMBDA d : d \in self.doc_map)
    IN [i \in DOMAIN known |->
           LET sem_score == IF known[i] \in DOMAIN semantic_scores
                            THEN semantic_scores[known[i]] ELSE 0
               kw_score == IF known[i] \in DOMAIN bm25_scores
                           THEN bm25_scores[known[i]] ELSE 0
           IN [id |-> known[i], semantic_score |-> sem_score, keyword_score |-> kw_score,
               combined_score |-> Combined(self, sem_score, kw_score),
               reranked |-> FALSE, rerank_score |-> 0]]

CombinedScores(results) == [i \in DOMAIN results |-> results[i].combined_score]
RerankScores(results) == [i \in DOMAIN results |-> results[i].rerank_score]

SortByCombinedNot(results) == results

SortByCombined(results) == SortDesc(results, CombinedScores(results))

RerankNoCut(results, rr, top_k) ==
    IF results = <<>> THEN <<>>
    ELSE LET scored == [i \in DOMAIN results |->
                           [results[i] EXCEPT !.reranked = TRUE, !.rerank_score = rr[results[i].id]]]
         IN SortDesc(scored, RerankScores(scored))

(* CrossEncoderReranker.rerank; rr is the similarity the provider's         *)
(* embeddings give each passage; the sort key is rerank_score or 0          *)
Rerank(results, rr, top_k) ==
    IF results = <<>> THEN <<>>
    ELSE LET scored == [i \in DOMAIN results |->
                           [results[i] EXCEPT !.reranked = TRUE, !.rerank_score = rr[results[i].id]]]
             sorted == SortDesc(scored, RerankScores(scored))
         IN IF top_k # 0 THEN Take(sorted, top_k) ELSE sorted

(* search after the _initialized guard *)
HybridSearchBody(self, scorer, store, query, sim, rr, ascending, top_k) ==
    LET candidate_k == top_k * 3
        raised == \/ SearchRaises(store, sim, Arg(candidate_k), Arg(SemanticThresholdDefault))
                  \/ BM25Raises(scorer, query)
        semantic_results == VSSearch(store, sim, Arg(candidate_k), Arg(SemanticThresholdDefault))
        semantic_scores == LastOf([i \in DOMAIN semantic_results |-> semantic_results[i].id],
                                  [i \in DOMAIN semantic_results |-> semantic_results[i].score])
        bm25_scores_raw == Take(BM25Score(scorer, query), candidate_k)
        normalized == NormalizeScores(PairScores(bm25_scores_raw))
        bm25_scores == LastOf([i \in DOMAIN bm25_scores_raw |-> bm25_scores_raw[i][1]], normalized)
        results == SortByCombined(MergeCandidates(self, semantic_scores, bm25_scores, ascending))
        top_candidates == Take(results, top_k * 2)
        reranks == self.use_reranking /\ top_candidates # <<>>
    IN [raised |-> raised,
        results |-> IF raised THEN <<>>
                    ELSE IF reranks THEN Rerank(top_candidates, rr, top_k)
                    ELSE Take(top_candidates, top_k),
        fused |-> IF raised THEN <<>> ELSE results,
        semantic_results |-> IF raised THEN <<>> ELSE semantic_results,
        calls |-> {"vector_store"}
                  \cup (IF NTotal(store) # 0 THEN {"embedding"} ELSE {})
                  \cup (IF raised THEN {} ELSE {"bm25"})
                  \cup (IF ~raised /\ reranks THEN {"embedding"} ELSE {})]

HybridSearchNoGuard(self, scorer, store, query, sim, rr, ascending, top_k) ==
    HybridSearchBody(self, scorer, store, query, sim, rr, ascending, top_k)

HybridSearch(self, scorer, store, query, sim, rr, ascending, top_k) ==
    IF ~self.initialized
    THEN [raised |-> FALSE, results |-> <<>>, fused |-> <<>>, semantic_results |-> <<>>,
          calls |-> {}]
    ELSE HybridSearchBody(self, scorer, store, query, sim, rr, ascending, top_k)

(* to_retrieved_context: rerank_score if rerank_score else combined_score *)
BestScore(r) == IF r.reranked /\ r.rerank_score # 0 THEN r.rerank_score ELSE r.combined_score

ToRetrievedContext(results) ==
    [i \in DOMAIN results |-> [id |-> results[i].id, score |-> BestScore(results[i])]]

(* RetrievedContext requires 0 <= similarity_score <= 1 *)
ToRetrievedContextRaises(results) ==
    \E i \in DOMAIN results : BestScore(results[i]) < 0 \/ BestScore(results[i]) > One

-----------------------------------------------------------------------------
(* Conversation memory *)

ShortTermTurns == 10

ConversationMemoryNew(max_turns) == [max_turns |-> max_turns, buffer |-> <<>>]

(* deque(maxlen = max_turns).append: the oldest turn goes when it is full *)
AddTurn(self, turn) ==
    LET appended == self.buffer \o <<turn>>
    IN [self EXCEPT !.buffer =
           IF self.max_turns = 0 THEN <<>>
           ELSE IF Len(appended) > self.max_turns THEN Tail(appended) ELSE appended]

ConversationClear(self) == [self EXCEPT !.buffer = <<>>]

(* memories: the ids of the entries; memory_store: their vectors *)
LongTermMemoryNew == [memories |-> {}, memory_store |-> VSNew]

HybridMemoryNew(short_term_turns) ==
    [short_term |-> ConversationMemoryNew(short_term_turns), long_term |-> LongTermMemoryNew]

(* the id of a new entry: a hash of the query and the time, new each time *)
GenerateMemoryId(self) == Cardinality(self.memories) + 1

(* store: the entry is put in memories, then embedded into memory_store *)
LongTermStore(self, embed_fails) ==
    [self EXCEPT !.memories = @ \cup {GenerateMemoryId(self)},
                 !.memory_store = AddDocuments(@, <<GenerateMemoryId(self)>>, embed_fails)]

LongTermStoreRaises(self, embed_fails) ==
    AddRaises(self.memory_store, <<GenerateMemoryId(self)>>, embed_fails)

AddInteraction(self, turn, store_long_term, embed_fails) ==
    [self EXCEPT !.short_term = AddTurn(@, turn),
                 !.long_term = IF store_long_term THEN LongTermStore(@, embed_fails) ELSE @]

AddInteractionRaises(self, store_long_term, embed_fails) ==
    store_long_term /\ LongTermStoreRaises(self.long_term, embed_fails)

(* recall raises when the query cannot be embedded; with no memory stored  *)
(* it returns before that                                                  *)
RecallRaises(self, embed_fails) == NTotal(self.memory_store) # 0 /\ embed_fails

ClearSession(self) == [self EXCEPT !.short_term = ConversationClear(@)]

-----------------------------------------------------------------------------
(* SemanticChunker. A text is a sequence of characters; a sentence range   *)
(* is <<start, end>>, counted from 0 and open at the end, as in the code.  *)

IsSpace(c) == c \in {" ", "\n"}
IsUpper(c) == c = "A"
IsSentenceEnd(c) == c \in {".", "!", "?"}

RECURSIVE LStrip(_)
LStrip(text) ==
    IF text # <<>> /\ IsSpace(Head(text)) THEN LStrip(Tail(text)) ELSE text

RECURSIVE RStrip(_)
RStrip(text) ==
    IF text # <<>> /\ IsSpace(text[Len(text)])
    THEN RStrip(SubSeq(text, 1, Len(text) - 1)) ELSE text

Strip(text) == RStrip(LStrip(text))

(* re.sub(r'\s+', ' ', text) *)
RECURSIVE CollapseSpaces(_)
CollapseSpaces(text) ==
    IF text = <<>> THEN <<>>
    ELSE IF IsSpace(Head(text)) THEN <<" ">> \o CollapseSpaces(LStrip(text))
    ELSE <<Head(text)>> \o CollapseSpaces(Tail(text))

CleanText(text) == Strip(CollapseSpaces(text))

(* re.split on (?<=[.!?])\s+(?=[A-Z]); the alternative after a newline     *)
(* cannot match, the text has no newline left                              *)
RECURSIVE SplitSentences(_)
SplitSentences(text) ==
    LET cuts == {i \in 2..(Len(text) - 1) :
                    IsSpace(text[i]) /\ IsSentenceEnd(text[i - 1]) /\ IsUpper(text[i + 1])}
    IN IF cuts = {} THEN <<text>>
       ELSE LET c == CHOOSE i \in cuts : \A j \in cuts : i <= j
            IN <<SubSeq(text, 1, c - 1)>> \o SplitSentences(SubSeq(text, c + 1, Len(text)))

TokenizeSentences(text) ==
    LET parts == SplitSentences(CleanText(text))
        stripped == [i \in DOMAIN parts |-> Strip(parts[i])]
    IN SelectSeq(stripped, LAMBDA x : x # <<>>)

SemanticChunkerNew(similarity_threshold, min_chunk_size, max_chunk_size) ==
    [similarity_threshold |-> similarity_threshold,
     min_chunk_size |-> min_chunk_size, max_chunk_size |-> max_chunk_size]

RECURSIVE SortedSeq(_)
SortedSeq(S) ==
    IF S = {} THEN <<>>
    ELSE LET m == CHOOSE x \in S : \A y \in S : x <= y
         IN <<m>> \o SortedSeq(S \ {m})

FindBreakpointsBelowOnly(self, similarities) ==
    SortedSeq({i \in 0..(Len(similarities) - 1) :
                  similarities[i + 1] < self.similarity_threshold})

(* similarities[i + 1] here is similarities[i] of the code; 0.1 is 100 *)
FindBreakpoints(self, similarities) ==
    LET n == Len(similarities)
        below_threshold == {i \in 0..(n - 1) : similarities[i + 1] < self.similarity_threshold}
        local_minima == {i \in 1..(n - 2) :
                            /\ similarities[i + 1] < similarities[i]
                            /\ similarities[i + 1] < similarities[i + 2]
                            /\ similarities[i + 1] < self.similarity_threshold + 100}
    IN IF n = 0 THEN <<>> ELSE SortedSeq(below_threshold \cup local_minima)

(* sum(len(sentences[i]) for i in range(start, end)) *)
RECURSIVE TextLen(_, _, _)
TextLen(sentences, start, end) ==
    IF start >= end THEN 0
    ELSE Len(sentences[start + 1]) + TextLen(sentences, start + 1, end)

(* ' '.join(sentences[start:end]) *)
RECURSIVE Join(_, _, _)
Join(sentences, start, end) ==
    IF start >= end THEN <<>>
    ELSE IF start + 1 = end THEN sentences[start + 1]
    ELSE sentences[start + 1] \o <<" ">> \o Join(sentences, start + 1, end)

RECURSIVE MergeLoop(_, _, _, _, _, _, _)
MergeLoop(self, sentences, chunks, i, current_start, current_end, current_text_len) ==
    IF i > Len(chunks) THEN << <<current_start, current_end>> >>
    ELSE LET start == chunks[i][1]
             end == chunks[i][2]
             chunk_text_len == TextLen(sentences, start, end)
         IN IF current_text_len < self.min_chunk_size
            THEN MergeLoop(self, sentences, chunks, i + 1, current_start, end,
                           current_text_len + chunk_text_len)
            ELSE << <<current_start, current_end>> >>
                 \o MergeLoop(self, sentences, chunks, i + 1, start, end, chunk_text_len)

MergeSmallChunksNoMerge(self, sentences, breakpoints) ==
    LET boundaries == <<0>> \o [i \in DOMAIN breakpoints |-> breakpoints[i] + 1]
                          \o <<Len(sentences)>>
    IN [i \in 1..(Len(boundaries) - 1) |-> <<boundaries[i], boundaries[i + 1]>>]

MergeSmallChunks(self, sentences, breakpoints) ==
    IF breakpoints = <<>> THEN << <<0, Len(sentences)>> >>
    ELSE LET boundaries == <<0>> \o [i \in DOMAIN breakpoints |-> breakpoints[i] + 1]
                               \o <<Len(sentences)>>
             chunks == [i \in 1..(Len(boundaries) - 1) |-> <<boundaries[i], boundaries[i + 1]>>]
         IN MergeLoop(self, sentences, chunks, 2, chunks[1][1], chunks[1][2],
                      TextLen(sentences, chunks[1][1], chunks[1][2]))

RECURSIVE SplitLoopNoFlush(_, _, _, _, _, _)
SplitLoopNoFlush(self, sentences, i, end, current_start, current_len) ==
    IF i >= end THEN <<>>
    ELSE LET sent_len == Len(sentences[i + 1])
         IN IF current_len + sent_len > self.max_chunk_size /\ current_len > 0
            THEN << <<current_start, i>> >>
                 \o SplitLoopNoFlush(self, sentences, i + 1, end, i, sent_len)
            ELSE SplitLoopNoFlush(self, sentences, i + 1, end, current_start,
                                  current_len + sent_len)

(* the inner loop of _split_large_chunks over range(start, end), from i *)
RECURSIVE SplitLoop(_, _, _, _, _, _)
SplitLoop(self, sentences, i, end, current_start, current_len) ==
    IF i >= end
    THEN IF current_start < end THEN << <<current_start, end>> >> ELSE <<>>
    ELSE LET sent_len == Len(sentences[i + 1])
         IN IF current_len + sent_len > self.max_chunk_size /\ current_len > 0
            THEN << <<current_start, i>> >> \o SplitLoop(self, sentences, i + 1, end, i, sent_len)
            ELSE SplitLoop(self, sentences, i + 1, end, current_start, current_len + sent_len)

RECURSIVE SplitLargeChunks(_, _, _)
SplitLargeChunks(self, sentences, chunk_boundaries) ==
    IF chunk_boundaries = <<>> THEN <<>>
    ELSE LET start == Head(chunk_boundaries)[1]
             end == Head(chunk_boundaries)[2]
         IN (IF Len(Join(sentences, start, end)) <= self.max_chunk_size
             THEN << <<start, end>> >>
             ELSE SplitLoop(self, sentences, start, end, start, 0))
            \o SplitLargeChunks(self, sentences, Tail(chunk_boundaries))

SemanticChunk(sentences, start, end) ==
    [text |-> Join(sentences, start, end),
     start_sentence_idx |-> start, end_sentence_idx |-> end]

ChunkNoShortCut(self, text, similarities, embed_fails) ==
    LET sentences == TokenizeSentences(text)
    IN IF sentences = <<>> THEN [raised |-> FALSE, chunks |-> <<>>, calls |-> {}]
       ELSE IF embed_fails THEN [raised |-> TRUE, chunks |-> <<>>, calls |-> {"embedding"}]
       ELSE [raised |-> FALSE, chunks |-> <<SemanticChunk(sentences, 0, Len(sentences))>>,
             calls |-> {"embedding"}]

(* chunk(text). similarities is what _compute_similarities makes of the    *)
(* provider's embeddings of the sentences; embed_fails: embed_texts raises *)
Chunk(self, text, similarities, embed_fails) ==
    LET sentences == TokenizeSentences(text)
        n == Len(sentences)
        breakpoints == FindBreakpoints(self, Take(similarities, n - 1))
        chunk_boundaries ==
            SplitLargeChunks(self, sentences, MergeSmallChunks(self, sentences, breakpoints))
    IN IF n = 0 THEN [raised |-> FALSE, chunks |-> <<>>, calls |-> {}]
       ELSE IF n = 1
       THEN [raised |-> FALSE, chunks |-> <<SemanticChunk(sentences, 0, 1)>>, calls |-> {}]
       ELSE IF embed_fails THEN [raised |-> TRUE, chunks |-> <<>>, calls |-> {"embedding"}]
       ELSE [raised |-> FALSE,
             chunks |-> [i \in DOMAIN chunk_boundaries |->
                            SemanticChunk(sentences, chunk_boundaries[i][1],
                                          chunk_boundaries[i][2])],
             calls |-> {"embedding"}]

Max2(a, b) == IF a >= b THEN a ELSE b
Min2(a, b) == IF a <= b THEN a ELSE b

OverlapStartUnbounded(base_chunks, i, overlap_sentences) ==
    IF i > 1
    THEN Max2(base_chunks[i - 1].end_sentence_idx - overlap_sentences, 0)
    ELSE base_chunks[i].start_sentence_idx

OverlapStart(base_chunks, i, overlap_sentences) ==
    IF i > 1
    THEN Max2(base_chunks[i - 1].end_sentence_idx - overlap_sentences,
              base_chunks[i - 1].start_sentence_idx)
    ELSE base_chunks[i].start_sentence_idx

OverlapEnd(base_chunks, i, overlap_sentences) ==
    IF i < Len(base_chunks)
    THEN Max2(base_chunks[i].end_sentence_idx,
              Min2(base_chunks[i + 1].start_sentence_idx + overlap_sentences,
                   base_chunks[i + 1].end_sentence_idx))
    ELSE base_chunks[i].end_sentence_idx

ChunkWithOverlap(self, text, similarities, embed_fails, overlap_sentences) ==
    LET base == Chunk(self, text, similarities, embed_fails)
        base_chunks == base.chunks
        sentences == TokenizeSentences(text)
    IN IF base.raised \/ Len(base_chunks) <= 1 \/ overlap_sentences = 0 THEN base
       ELSE [base EXCEPT !.chunks =
                [i \in DOMAIN base_chunks |->
                    SemanticChunk(sentences, OverlapStart(base_chunks, i, overlap_sentences),
                                  OverlapEnd(base_chunks, i, overlap_sentences))]]

-----------------------------------------------------------------------------
(* DocumentProcessor: chunking *)

DefaultChunkSize == 500
DefaultChunkOverlap == 50
SemanticMinChunk == 100
SemanticMaxChunk == 1500

DocumentProcessorNew(chunk_size, chunk_overlap, semantic_threshold) ==
    [chunk_size |-> chunk_size, chunk_overlap |-> chunk_overlap,
     semantic_threshold |-> semantic_threshold]

GetSemanticChunker(self) ==
    SemanticChunkerNew(self.semantic_threshold, SemanticMinChunk, SemanticMaxChunk)

(* a slice bound as Python reads it: negative counts from the end *)
SliceIndex(i, n) == IF i < 0 THEN Max2(i + n, 0) ELSE Min2(i, n)

(* text[start:end] *)
Slice(text, start, end) ==
    SubSeq(text, SliceIndex(start, Len(text)) + 1, SliceIndex(end, Len(text)))

(* text.rfind(sep, start, end) *)
RFind(text, sep, start, end) ==
    LET lo == SliceIndex(start, Len(text))
        hi == SliceIndex(end, Len(text))
        found == {i \in lo..(hi - Len(sep)) : SubSeq(text, i + 1, i + Len(sep)) = sep}
    IN IF found = {} THEN 0 - 1 ELSE CHOOSE i \in found : \A j \in found : j <= i

Separators == << <<".", " ">>, <<".", "\n">>, <<"!", " ">>, <<"?", " ">>, <<"\n", "\n">> >>

(* the for loop over the separators, from the k-th: the end it settles on *)
RECURSIVE BreakAt(_, _, _, _)
BreakAt(text, start, end, k) ==
    IF k > Len(Separators) THEN end
    ELSE LET last_sep == RFind(text, Separators[k], start, end)
         IN IF last_sep > start THEN last_sep + Len(Separators[k])
            ELSE BreakAt(text, start, end, k + 1)

(* the while loop from start. The body depends on start alone, so a start  *)
(* seen before means the loop never ends; so does a start so far below 0   *)
(* that every later one is lower still. windows lists the <<start, end>>   *)
(* of the iterations.                                                      *)
RECURSIVE SimpleLoop(_, _, _, _, _)
SimpleLoop(text, chunk_size, overlap, start, seen) ==
    IF ~(start < Len(text)) THEN [hangs |-> FALSE, chunks |-> <<>>, windows |-> <<>>]
    ELSE IF \/ start \in seen
            \/ start + chunk_size <= 0 - Len(text) /\ overlap >= chunk_size
    THEN [hangs |-> TRUE, chunks |-> <<>>, windows |-> <<>>]
    ELSE LET end == IF start + chunk_size < Len(text)
                    THEN BreakAt(text, start, start + chunk_size, 1)
                    ELSE start + chunk_size
             chunk == Strip(Slice(text, start, end))
             next == IF end < Len(text) THEN end - overlap ELSE Len(text)
             rest == SimpleLoop(text, chunk_size, overlap, next, seen \cup {start})
         IN [hangs |-> rest.hangs,
             chunks |-> (IF chunk # <<>> THEN <<chunk>> ELSE <<>>) \o rest.chunks,
             windows |-> << <<start, end>> >> \o rest.windows]

(* chunk_size or self.chunk_size *)
ChunkSizeOrDefault(self, chunk_size) ==
    IF chunk_size.given /\ chunk_size.val # 0 THEN chunk_size.val ELSE self.chunk_size

(* overlap or self.chunk_overlap *)
OverlapOrDefault(self, overlap) ==
    IF overlap.given /\ overlap.val # 0 THEN overlap.val ELSE self.chunk_overlap

SimpleChunk(self, text, chunk_size, overlap) ==
    LET size == ChunkSizeOrDefault(self, chunk_size)
        over == OverlapOrDefault(self, overlap)
        clean == CleanText(text)
    IN IF Len(clean) <= size
       THEN [hangs |-> FALSE, chunks |-> IF clean # <<>> THEN <<clean>> ELSE <<>>,
             windows |-> <<>>]
       ELSE SimpleLoop(clean, size, over, 0, {})

ChunkTexts(chunks) == [i \in DOMAIN chunks |-> chunks[i].text]

(* _semantic_chunk without its except clause *)
SemanticChunkNoFallback(self, text, similarities, embed_fails) ==
    LET r == ChunkWithOverlap(GetSemanticChunker(self), text, similarities, embed_fails, 1)
    IN [raised |-> r.raised, hangs |-> FALSE,
        chunks |-> IF r.raised THEN <<>> ELSE ChunkTexts(r.chunks), fell_back |-> FALSE]

SemanticChunkText(self, text, similarities, embed_fails) ==
    LET r == ChunkWithOverlap(GetSemanticChunker(self), text, similarities, embed_fails, 1)
        simple == SimpleChunk(self, text, NoArg, NoArg)
    IN IF r.raised
       THEN [raised |-> FALSE, hangs |-> simple.hangs, chunks |-> simple.chunks,
             fell_back |-> TRUE]
       ELSE [raised |-> FALSE, hangs |-> FALSE, chunks |-> ChunkTexts(r.chunks),
             fell_back |-> FALSE]

ChunkText(self, text, similarities, embed_fails) ==
    SemanticChunkText(self, text, similarities, embed_fails)

-----------------------------------------------------------------------------
(* The scorer on its own: fit on any corpus, score any query *)

bmVars == <<bm25, bmDocs, bmFits, bmOut, bmQuery>>
normVars == <<normIn, normOut>>

(* the corpora tried: a document with a repeated term, two that share     *)
(* terms, and one without any token                                      *)
ScorerDocIds == {"b1", "b2", "f1c0", "e0"}

Corpora == SeqsUpTo(ScorerDocIds, MaxCorpus)

storeVars == <<vs, disk, out, args>>
hyVars == <<hy, rag, uploads, deleted, memory>>

NoArgs == [op |-> "none"]

BMInit ==
    /\ bm25 = BM25New
    /\ bmDocs = <<>>
    /\ bmFits = 0
    /\ bmOut = <<>>
    /\ bmQuery = <<>>

NormInit ==
    /\ normIn = <<>>
    /\ normOut = <<>>

StoreInit ==
    /\ vs = VSNew
    /\ disk = NoDisk
    /\ out = <<>>
    /\ args = NoArgs

HyInit ==
    /\ hy = HybridNew(SemanticWeightDefault, KeywordWeightDefault, TRUE)
    /\ rag = [initialized |-> FALSE, hybrid |-> TRUE, use_memory |-> TRUE]
    /\ uploads = {}
    /\ deleted = [f \in FileNames |-> "no"]
    /\ memory = HybridMemoryNew(ShortTermTurns)

InitBM25 == BMInit /\ NormInit /\ StoreInit /\ HyInit /\ pc = "idle"

BMFit ==
    \E documents \in Corpora :
        /\ bm25' = BM25Fit(bm25, documents)
        /\ bmDocs' = documents
        /\ bmFits' = IF bmFits < 2 THEN bmFits + 1 ELSE 2
        /\ bmOut' = <<>>
        /\ bmQuery' = <<>>
        /\ pc' = "fit"
        /\ UNCHANGED <<normVars, storeVars, hyVars>>

BMScore ==
    \E query \in Queries :
        /\ bmQuery' = query
        /\ bmOut' = IF BM25Raises(bm25, query) THEN <<>> ELSE BM25Score(bm25, query)
        /\ pc' = IF BM25Raises(bm25, query) THEN "raised" ELSE "score"
        /\ UNCHANGED <<bm25, bmDocs, bmFits>>
        /\ UNCHANGED <<normVars, storeVars, hyVars>>

NextBM25 == BMFit \/ BMScore

SpecBM25 == InitBM25 /\ [][NextBM25]_vars

(* _normalize_scores on any list of scores *)

ScoreLists == SeqsUpTo((0 - 1)..MaxScoreVal, MaxScores)

InitNorm == InitBM25

Normalize ==
    \E scores \in ScoreLists :
        /\ normIn' = scores
        /\ normOut' = NormalizeScores(scores)
        /\ pc' = "normalize"
        /\ UNCHANGED <<bmVars, storeVars, hyVars>>

NextNorm == Normalize

SpecNorm == InitNorm /\ [][NextNorm]_vars

-----------------------------------------------------------------------------
(* The vector store on its own. Each call returns before the next one     *)
(* starts (the service is single-threaded): Taken hands the result over.  *)

Batches == SeqsUpTo(StoreDocIds, MaxBatch)

(* the inner product of a query with each passage, as the provider's      *)
(* embeddings make it: one profile per query                              *)
Sims == [StoreDocIds -> {0 - 100, 300, 900}]

TopKArgs == {NoArg} \cup {Arg(k) : k \in 0..MaxTopK}
ThresholdArgs == {NoArg, Arg(0), Arg(500)}

InitStore == BMInit /\ NormInit /\ StoreInit /\ HyInit /\ pc = "idle"

Taken ==
    /\ pc \notin {"idle", "chunk_text_hangs", "simple_chunk_hangs"}
    /\ pc' = "idle"
    /\ out' = <<>>
    /\ args' = NoArgs
    /\ UNCHANGED <<vs, disk, bmVars, normVars, hyVars>>

StoreAddOf(batches, max) ==
    /\ pc = "idle"
    /\ \E documents \in batches, embed_fails \in BOOLEAN :
          /\ Len(vs.documents) + Len(documents) <= max
          /\ NTotal(vs) + Len(documents) <= max
          /\ vs' = AddDocuments(vs, documents, embed_fails)
          /\ pc' = IF AddRaises(vs, documents, embed_fails) THEN "add_raised" ELSE "add"
          /\ args' = [documents |-> documents, before |-> vs,
                      returned |-> IF AddRaises(vs, documents, embed_fails) THEN 0 - 1
                                   ELSE AddReturns(documents)]
    /\ UNCHANGED <<disk, out, bmVars, normVars, hyVars>>

StoreAdd == StoreAddOf(Batches, MaxStore)

StoreClear ==
    /\ pc = "idle"
    /\ vs' = VSClear(vs)
    /\ pc' = "clear"
    /\ UNCHANGED <<disk, out, args, bmVars, normVars, hyVars>>

StoreSearch ==
    /\ pc = "idle"
    /\ \E sim \in Sims, top_k \in TopKArgs, threshold \in ThresholdArgs :
          /\ out' = VSSearch(vs, sim, top_k, threshold)
          /\ pc' = IF SearchRaises(vs, sim, top_k, threshold) THEN "search_raised" ELSE "search"
          /\ args' = [top_k |-> top_k, threshold |-> threshold]
    /\ UNCHANGED <<vs, disk, bmVars, normVars, hyVars>>

(* initialize_vector_store; the singleton may not exist yet as long as     *)
(* nothing was added                                                       *)
StoreInitialize ==
    /\ pc = "idle"
    /\ \E documents \in Batches, force_reinit \in BOOLEAN, embed_fails \in BOOLEAN,
          exists \in (IF vs = VSNew THEN BOOLEAN ELSE {TRUE}) :
          /\ Len(vs.documents) + Len(documents) <= MaxStore
          /\ vs' = InitializeVectorStore(vs, exists, documents, force_reinit, embed_fails)
          /\ pc' = IF InitializeVectorStoreRaises(vs, exists, documents, force_reinit,
                                                  embed_fails)
                   THEN "initialize_store_raised" ELSE "initialize_store"
          /\ args' = [documents |-> documents, force_reinit |-> force_reinit,
                      exists |-> exists, before |-> vs]
    /\ UNCHANGED <<disk, out, bmVars, normVars, hyVars>>

NextStore == StoreAdd \/ StoreClear \/ StoreSearch \/ StoreInitialize \/ Taken

SpecStore == InitStore /\ [][NextStore]_vars

(* Saving and loading *)


StoreSave ==
    /\ pc = "idle"
    /\ disk' = VSSave(vs, disk)
    /\ pc' = "save"
    /\ UNCHANGED <<vs, out, args, bmVars, normVars, hyVars>>

StoreLoad ==
    /\ pc = "idle"
    /\ vs' = VSLoad(vs, disk)
    /\ pc' = "load"
    /\ UNCHANGED <<disk, out, args, bmVars, normVars, hyVars>>

(* FAISSVectorStore().load(directory) on a new instance, which is returned *)
StoreLoadFresh ==
    /\ pc = "idle"
    /\ out' = VSLoad(VSNew, disk)
    /\ pc' = "load_fresh"
    /\ UNCHANGED <<vs, disk, args, bmVars, normVars, hyVars>>

NextPersist == StoreAdd \/ StoreClear \/ StoreSave \/ StoreLoad \/ StoreLoadFresh \/ Taken

SpecPersist == InitStore /\ [][NextPersist]_vars

(* save raises after faiss.index is written *)
StoreSaveInterrupted ==
    /\ pc = "idle"
    /\ disk' = VSSaveInterrupted(vs, disk)
    /\ pc' = "save_raised"
    /\ UNCHANGED <<vs, out, args, bmVars, normVars, hyVars>>

(* the directory as a process configured with another embedding model     *)
(* leaves it                                                               *)
OtherStoreSave ==
    /\ pc = "idle"
    /\ \E documents \in {<<>>, <<"b1">>} :
          disk' = [VSSave(VSOther(documents), disk)
                      EXCEPT !.intact = FALSE, !.saved_ids = <<>>, !.saved_ntotal = 0]
    /\ pc' = "other_save"
    /\ UNCHANGED <<vs, out, args, bmVars, normVars, hyVars>>

(* one of the two files is removed from the directory *)
RemoveArtifact ==
    /\ pc = "idle"
    /\ \E a \in {"faiss.index", "documents.pkl"} :
          /\ IF a = "faiss.index" THEN disk.has_index ELSE disk.has_documents
          /\ disk' = IF a = "faiss.index"
                     THEN [disk EXCEPT !.has_index = FALSE, !.index = IndexFlatIP(EmbDim),
                                       !.intact = FALSE, !.saved_ids = <<>>,
                                       !.saved_ntotal = 0]
                     ELSE [disk EXCEPT !.has_documents = FALSE, !.documents = <<>>,
                                       !.intact = FALSE, !.saved_ids = <<>>,
                                       !.saved_ntotal = 0]
    /\ pc' = "removed"
    /\ UNCHANGED <<vs, out, args, bmVars, normVars, hyVars>>

StoreAddFew == StoreAddOf({<<>>, <<"b1">>, <<"b2">>}, MaxLoadStore)

(* Loading from a directory in any condition *)
NextLoad ==
    \/ StoreAddFew \/ StoreClear \/ StoreSave \/ StoreLoad \/ StoreLoadFresh
    \/ StoreSaveInterrupted \/ OtherStoreSave \/ RemoveArtifact \/ Taken

SpecLoad == InitStore /\ [][NextLoad]_vars

-----------------------------------------------------------------------------
(* The hybrid ranker on its own: constructed with either weighting, with   *)
(* or without reranking, over a vector store that is new or already holds  *)
(* passages.                                                               *)

HyDocIds == {"b1", "b2", "f1c0", "f2c0"}

HyCorpora ==
    { <<>>, <<"b1">>, <<"b2", "b2">>, <<"b1", "b2", "f1c0">>, <<"f1c0", "b1", "f2c0", "b2">> }

HyQueries == { <<>>, <<"dns">>, <<"DNS", "pay">> }

HySims == [HyDocIds -> {200, 800}]

HyReranks(self) ==
    IF self.use_reranking THEN [self.doc_map -> {0 - 100, 0, 600}]
    ELSE {[d \in self.doc_map |-> 0]}

InitHybrid ==
    /\ BMInit /\ NormInit
    /\ vs \in {VSNew, AddDocuments(VSNew, <<"f2c0", "b1">>, FALSE)}
    /\ disk = NoDisk
    /\ out = <<>>
    /\ args = NoArgs
    /\ rag = [initialized |-> FALSE, hybrid |-> TRUE, use_memory |-> TRUE]
    /\ uploads = {}
    /\ deleted = [f \in FileNames |-> "no"]
    /\ memory = HybridMemoryNew(ShortTermTurns)
    /\ hy \in {HybridNew(w[1], w[2], r) :
                  w \in {<<SemanticWeightDefault, KeywordWeightDefault>>,
                          <<KeywordWeightDefault, SemanticWeightDefault>>},
                  r \in BOOLEAN}
    /\ pc = "idle"

HyIndexDocuments ==
    /\ pc = "idle"
    /\ \E documents \in HyCorpora, embed_fails \in BOOLEAN :
          /\ bm25' = BM25Fit(bm25, documents)
          /\ vs' = IndexDocumentsVS(vs, documents, embed_fails)
          /\ hy' = IndexDocumentsHy(hy, documents,
                                    IndexDocumentsRaises(vs, documents, embed_fails))
          /\ pc' = IF IndexDocumentsRaises(vs, documents, embed_fails)
                   THEN "index_raised" ELSE "index"
          /\ args' = [documents |-> documents, store_was_empty |-> IndexDocumentsAdds(vs)]
    /\ UNCHANGED <<disk, rag, uploads, deleted, memory, out, bmDocs, bmFits, bmOut, bmQuery,
                   normVars>>

HySearch ==
    /\ pc = "idle"
    /\ \E query \in HyQueries, sim \in HySims, rr \in HyReranks(hy),
          ascending \in BOOLEAN, top_k \in 0..MaxHyTopK :
          \E r \in {HybridSearch(hy, bm25, vs, query, sim, rr, ascending, top_k)} :
             /\ out' = r.results
             /\ pc' = IF r.raised THEN "hybrid_search_raised" ELSE "hybrid_search"
             /\ args' = [query |-> query, top_k |-> top_k, calls |-> r.calls,
                         semantic_results |-> r.semantic_results, fused |-> r.fused]
    /\ UNCHANGED <<vs, disk, hy, rag, uploads, deleted, memory, bmVars, normVars>>

(* to_retrieved_context on the list a search has just returned *)
HyToRetrievedContext ==
    /\ pc = "hybrid_search"
    /\ out' = IF ToRetrievedContextRaises(out) THEN <<>> ELSE ToRetrievedContext(out)
    /\ args' = [results |-> out]
    /\ pc' = IF ToRetrievedContextRaises(out) THEN "to_retrieved_context_raised"
             ELSE "to_retrieved_context"
    /\ UNCHANGED <<vs, disk, hy, rag, uploads, deleted, memory, bmVars, normVars>>

NextHybrid == HyIndexDocuments \/ HySearch \/ HyToRetrievedContext \/ Taken

SpecHybrid == InitHybrid /\ [][NextHybrid]_vars

-----------------------------------------------------------------------------
(* The RAG pipeline and the document endpoints, over the singleton vector  *)
(* store. The pipeline builds its ranker with the default weights and with *)
(* reranking.                                                              *)

(* process_text: the chunks of a file, ids <filename>-chunk-<i> *)
FileChunks(f) == IF f = "f1" THEN <<"f1c0">> ELSE <<"f2c0", "f2c1">>

RECURSIVE ChunksOfAll(_)
ChunksOfAll(files) ==
    IF files = <<>> THEN <<>> ELSE FileChunks(Head(files)) \o ChunksOfAll(Tail(files))

NewDocs(store, documents) ==
    SelectSeq(documents, LAMBDA d : d \notin Range(store.documents))

(* RAGPipeline.initialize: the store after the base documents are added,   *)
(* and whether that raised                                                 *)
InitializeRaises(store, embed_fails) ==
    AddRaises(store, NewDocs(store, BaseIds), embed_fails)

InitializeVS(store, embed_fails) == AddDocuments(store, NewDocs(store, BaseIds), embed_fails)

(* retrieve_context on an initialized pipeline *)
RetrieveContext(pipeline, ranker, scorer, store, query, sim, rr, ascending) ==
    IF pipeline.hybrid /\ ranker.initialized
    THEN LET r == HybridSearch(ranker, scorer, store, query, sim, rr, ascending, TopKDefault)
         IN [raised |-> r.raised \/ ToRetrievedContextRaises(r.results),
             results |-> IF r.raised \/ ToRetrievedContextRaises(r.results) THEN <<>>
                         ELSE ToRetrievedContext(r.results)]
    ELSE [raised |-> SearchRaises(store, sim, Arg(TopKDefault), Arg(ThresholdDefault)),
          results |-> VSSearch(store, sim, Arg(TopKDefault), Arg(ThresholdDefault))]

PipeQueries == { <<"dns">>, <<"whois", "zzz">> }

(* similarity profiles: every passage near, every passage far, only the    *)
(* uploaded chunks near                                                    *)
PipeSims ==
    { [d \in DocIds |-> 800], [d \in DocIds |-> 200],
      [d \in DocIds |-> IF d \in Range(BaseIds) THEN 200 ELSE 800] }

PipeReranks(self) == { [d \in self.doc_map |-> v] : v \in {0 - 100, 0, 600} }

Init ==
    /\ BMInit /\ NormInit /\ StoreInit
    /\ hy = HybridNew(SemanticWeightDefault, KeywordWeightDefault, TRUE)
    /\ rag \in {[initialized |-> FALSE, hybrid |-> h, use_memory |-> TRUE] : h \in BOOLEAN}
    /\ uploads = {}
    /\ deleted = [f \in FileNames |-> "no"]
    /\ memory = HybridMemoryNew(ShortTermTurns)
    /\ pc = "idle"

(* initialize(), at startup or on the first retrieve_context *)
Initialized(embed_fails) ==
    IF rag.initialized
    THEN UNCHANGED <<vs, hy, bm25, rag>>
    ELSE /\ vs' = InitializeVS(vs, embed_fails)
         /\ IF rag.hybrid /\ ~InitializeRaises(vs, embed_fails)
            THEN /\ bm25' = BM25Fit(bm25, vs'.documents)
                 /\ hy' = IndexDocumentsHy(hy, vs'.documents,
                              IndexDocumentsRaises(vs', vs'.documents, embed_fails))
            ELSE UNCHANGED <<hy, bm25>>
         /\ rag' = [rag EXCEPT !.initialized = ~InitializeRaises(vs, embed_fails)]

RagInitialize ==
    /\ pc = "idle"
    /\ \E embed_fails \in BOOLEAN :
          /\ Initialized(embed_fails)
          /\ pc' = IF ~rag.initialized /\ InitializeRaises(vs, embed_fails)
                   THEN "initialize_raised" ELSE "initialize"
    /\ UNCHANGED <<disk, uploads, deleted, memory, out, args, bmDocs, bmFits, bmOut, bmQuery,
                   normVars>>

UploadDocument ==
    /\ pc = "idle"
    /\ \E f \in FileNames, index_immediately \in BOOLEAN, embed_fails \in BOOLEAN :
          /\ Len(vs.documents) + Len(FileChunks(f)) <= MaxIndexed
          /\ uploads' = uploads \cup {f}
          /\ deleted' = [deleted EXCEPT ![f] = "no"]
          /\ vs' = IF index_immediately THEN AddDocuments(vs, FileChunks(f), embed_fails) ELSE vs
          /\ pc' = IF index_immediately /\ AddRaises(vs, FileChunks(f), embed_fails)
                   THEN "upload_raised" ELSE "upload"
          /\ args' = [file |-> f, index_immediately |-> index_immediately,
                      initialized |-> rag.initialized]
    /\ UNCHANGED <<disk, hy, rag, memory, out, bmVars, normVars>>

DeleteFile ==
    /\ pc = "idle"
    /\ \E f \in FileNames :
          /\ uploads' = uploads \ {f}
          /\ deleted' = IF f \in uploads THEN [deleted EXCEPT ![f] = "deleted"] ELSE deleted
          /\ pc' = IF f \in uploads THEN "delete" ELSE "delete_not_found"
          /\ args' = [file |-> f]
    /\ UNCHANGED <<vs, disk, hy, rag, memory, out, bmVars, normVars>>

ReindexAll ==
    /\ pc = "idle"
    /\ \E embed_fails \in BOOLEAN :
          LET all_docs == BaseIds \o ChunksOfAll(IterSet(uploads, TRUE))
          IN /\ vs' = AddDocuments(VSClear(vs), all_docs, embed_fails)
             /\ pc' = IF AddRaises(VSClear(vs), all_docs, embed_fails)
                      THEN "reindex_raised" ELSE "reindex"
             /\ deleted' = IF AddRaises(VSClear(vs), all_docs, embed_fails) THEN deleted
                           ELSE [f \in FileNames |->
                                    IF deleted[f] = "deleted" THEN "reindexed" ELSE deleted[f]]
    /\ UNCHANGED <<disk, hy, rag, uploads, memory, out, args, bmVars, normVars>>

RagRetrieveContext ==
    /\ pc = "idle"
    /\ Initialized(FALSE)
    /\ \E query \in PipeQueries, sim \in PipeSims, rr \in PipeReranks(hy'), ascending \in BOOLEAN :
          \E r \in {RetrieveContext(rag', hy', bm25', vs', query, sim, rr, ascending)} :
             /\ out' = r.results
             /\ pc' = IF r.raised THEN "retrieve_raised" ELSE "retrieve"
             /\ args' = [query |-> query]
    /\ UNCHANGED <<disk, uploads, deleted, memory, bmDocs, bmFits, bmOut, bmQuery, normVars>>

(* resolve_ticket after initialize and retrieve_context.                   *)
FallbackResponse ==
    [answer |-> "fallback", references |-> <<>>, action_required |-> "escalate_to_technical"]

ValidActions ==
    {"none", "escalate_to_abuse_team", "escalate_to_billing", "escalate_to_technical",
     "customer_action_required", "follow_up_required"}

(* _parse_response: llm is the JSON the model returned, contexts the       *)
(* passages retrieved (each base passage has a section)                    *)
ParseResponse(llm, contexts) ==
    [answer |-> IF llm.answer = "" THEN "unable" ELSE llm.answer,
     references |-> IF llm.references = <<>>
                    THEN [i \in DOMAIN Take(contexts, 3) |-> contexts[i].id]
                    ELSE llm.references,
     action_required |-> IF llm.action_required \in ValidActions THEN llm.action_required
                         ELSE "none"]

ResolveTicketStoresFallback(pipeline, mem, ticket_text, retrieved, llm, include_memory_context, store_in_memory, embed_fails) ==
    LET uses == pipeline.use_memory
        early == \/ retrieved.raised
                 \/ uses /\ include_memory_context /\ RecallRaises(mem.long_term, embed_fails)
        response == IF llm.raises THEN FallbackResponse ELSE ParseResponse(llm, retrieved.results)
        turn == [query |-> ticket_text, response |-> response.answer,
                 action |-> response.action_required]
        stores == ~early /\ uses /\ store_in_memory
    IN [raised |-> early \/ (stores /\ AddInteractionRaises(mem, TRUE, embed_fails)),
        llm_raised |-> ~early /\ llm.raises,
        response |-> response,
        memory |-> IF stores THEN AddInteraction(mem, turn, TRUE, embed_fails) ELSE mem]

ResolveTicket(pipeline, mem, ticket_text, retrieved, llm, include_memory_context, store_in_memory, embed_fails) ==
    LET uses == pipeline.use_memory
        early == \/ retrieved.raised
                 \/ uses /\ include_memory_context /\ RecallRaises(mem.long_term, embed_fails)
        response == IF llm.raises THEN FallbackResponse ELSE ParseResponse(llm, retrieved.results)
        turn == [query |-> ticket_text, response |-> response.answer,
                 action |-> response.action_required]
        stores == ~early /\ ~llm.raises /\ uses /\ store_in_memory
    IN [raised |-> early \/ (stores /\ AddInteractionRaises(mem, TRUE, embed_fails)),
        llm_raised |-> ~early /\ llm.raises,
        response |-> response,
        memory |-> IF stores THEN AddInteraction(mem, turn, TRUE, embed_fails) ELSE mem]

(* what generate_json does: raises, or returns some JSON *)
LLMOutcomes ==
    { [raises |-> TRUE, answer |-> "", references |-> <<>>, action_required |-> "none"],
      [raises |-> FALSE, answer |-> "llm", references |-> <<"ref">>,
       action_required |-> "escalate_to_billing"],
      [raises |-> FALSE, answer |-> "", references |-> <<>>, action_required |-> "bogus"] }

RagResolveTicket ==
    /\ pc = "idle"
    /\ Initialized(FALSE)
    /\ \E ticket_text \in PipeQueries, sim \in PipeSims, rr \in PipeReranks(hy'),
          llm \in LLMOutcomes, include_memory_context \in BOOLEAN,
          store_in_memory \in BOOLEAN, embed_fails \in BOOLEAN :
          \E r \in {ResolveTicket(rag', memory, ticket_text,
                                  RetrieveContext(rag', hy', bm25', vs', ticket_text, sim, rr, TRUE),
                                  llm, include_memory_context, store_in_memory, embed_fails)} :
             /\ Cardinality(r.memory.long_term.memories) <= MaxTickets
             /\ memory' = r.memory
             /\ out' = IF r.raised THEN <<>> ELSE r.response
             /\ pc' = IF r.raised THEN "resolve_raised" ELSE "resolve"
             /\ args' = [ticket_text |-> ticket_text, llm_raised |-> r.llm_raised,
                         store_in_memory |-> store_in_memory, before |-> memory]
    /\ UNCHANGED <<disk, uploads, deleted, bmDocs, bmFits, bmOut, bmQuery, normVars>>

RagClearSessionMemory ==
    /\ pc = "idle"
    /\ rag.use_memory
    /\ memory' = ClearSession(memory)
    /\ pc' = "clear_session"
    /\ UNCHANGED <<vs, disk, hy, rag, uploads, deleted, out, args, bmVars, normVars>>

InitTicket ==
    /\ BMInit /\ NormInit /\ StoreInit
    /\ hy = HybridNew(SemanticWeightDefault, KeywordWeightDefault, TRUE)
    /\ rag \in {[initialized |-> FALSE, hybrid |-> h, use_memory |-> m] : h, m \in BOOLEAN}
    /\ uploads = {}
    /\ deleted = [f \in FileNames |-> "no"]
    /\ memory = HybridMemoryNew(ShortTermTurns)
    /\ pc = "idle"

NextTicket == RagResolveTicket \/ RagClearSessionMemory \/ Taken

SpecTicket == InitTicket /\ [][NextTicket]_vars

Next == RagInitialize \/ UploadDocument \/ DeleteFile \/ ReindexAll \/ RagRetrieveContext \/ Taken

Spec == Init /\ [][Next]_vars

-----------------------------------------------------------------------------
(* The chunkers on their own: any short text, and some longer ones of up   *)
(* to four sentences; chunkers with small size limits                      *)

Chars == {"a", "A", ".", " ", "\n"}

LongTexts ==
    { <<"a", ".", " ", "A">>, <<" ", "a", ".", "\n", "A", " ">>,
      <<"A", ".", " ", "A", ".", " ", "A", ".">>,
      <<"A", "a", ".", " ", " ", "A", ".", "\n", "A", "a", "a", ".">>,
      <<"A", ".", " ", "A", "a", ".", " ", "A", ".", " ", "A", ".">>,
      <<"a", "a", ".", " ", "A", "a", "a", "a", "a", " ", "a">>,
      <<"a", "a", "a", ".", " ", "A", "a", "a", "a", "a", ".", " ", "A">> }

Texts == SeqsUpTo(Chars, MaxText) \cup LongTexts

Chunkers == {SemanticChunkerNew(500, m[1], m[2]) : m \in {<<1, 2>>, <<1, 4>>, <<3, 4>>}}

(* the similarities of up to four sentences *)
Similarities == [1..3 -> {200, 550, 800}]

SentencePool == { <<"A">>, <<"A", "a">>, <<"A", "a", ".">> }

SentenceLists == SeqsUpTo(SentencePool, MaxSentences) \ {<<>>}

(* the contiguous ranges that partition [0, n) *)
Partitions(n) ==
    { LET b == SortedSeq({0, n} \cup cuts)
      IN [i \in 1..(Len(b) - 1) |-> <<b[i], b[i + 1]>>] : cuts \in SUBSET (1..(n - 1)) }

Processors ==
    { DocumentProcessorNew(DefaultChunkSize, DefaultChunkOverlap, 500),
      DocumentProcessorNew(3, 1, 500), DocumentProcessorNew(4, 2, 500) }

InitChunk == InitStore

ChunkerChunk ==
    /\ pc = "idle"
    /\ \E self \in Chunkers, text \in Texts, similarities \in Similarities,
          embed_fails \in BOOLEAN :
          \E r \in {Chunk(self, text, similarities, embed_fails)} :
             /\ out' = r.chunks
             /\ args' = [self |-> self, text |-> text, embed_fails |-> embed_fails,
                         calls |-> r.calls]
             /\ pc' = IF r.raised THEN "chunk_raised" ELSE "chunk"
    /\ UNCHANGED <<vs, disk, bmVars, normVars, hyVars>>

ChunkerSplitLarge ==
    /\ pc = "idle"
    /\ \E self \in Chunkers, sentences \in SentenceLists :
          \E chunk_boundaries \in Partitions(Len(sentences)) :
             /\ out' = SplitLargeChunks(self, sentences, chunk_boundaries)
             /\ args' = [self |-> self, sentences |-> sentences,
                         chunk_boundaries |-> chunk_boundaries]
             /\ pc' = "split_large"
    /\ UNCHANGED <<vs, disk, bmVars, normVars, hyVars>>

ChunkerChunkWithOverlap ==
    /\ pc = "idle"
    /\ \E self \in Chunkers, text \in Texts, similarities \in Similarities,
          embed_fails \in BOOLEAN, overlap_sentences \in 0..MaxOverlap :
          \E r \in {ChunkWithOverlap(self, text, similarities, embed_fails, overlap_sentences)} :
             /\ out' = r.chunks
             /\ args' = [self |-> self, text |-> text,
                         overlap_sentences |-> overlap_sentences,
                         base_chunks |-> Chunk(self, text, similarities, embed_fails).chunks]
             /\ pc' = IF r.raised THEN "chunk_with_overlap_raised" ELSE "chunk_with_overlap"
    /\ UNCHANGED <<vs, disk, bmVars, normVars, hyVars>>

ProcessorChunkText ==
    /\ pc = "idle"
    /\ \E self \in Processors, text \in Texts, similarities \in Similarities,
          embed_fails \in BOOLEAN :
          \E r \in {ChunkText(self, text, similarities, embed_fails)} :
             /\ out' = r.chunks
             /\ args' = [self |-> self, text |-> text,
                         semantic_raised |->
                             ChunkWithOverlap(GetSemanticChunker(self), text, similarities,
                                              embed_fails, 1).raised]
             /\ pc' = IF r.raised THEN "chunk_text_raised"
                      ELSE IF r.hangs THEN "chunk_text_hangs" ELSE "chunk_text"
    /\ UNCHANGED <<vs, disk, bmVars, normVars, hyVars>>

MaxSims == 4

(* similarity sequences: values below the threshold of 0.5, between it and *)
(* 0.6, at 0.6 and above                                                   *)
SimilarityLists == SeqsUpTo({200, 550, 600, 800}, MaxSims)

(* the breakpoints _find_breakpoints can return for n sentences *)
BreakpointLists(n) == {SortedSeq(S) : S \in SUBSET (0..(n - 2))}

ChunkerFindBreakpoints ==
    /\ pc = "idle"
    /\ \E self \in Chunkers, similarities \in SimilarityLists :
          /\ out' = FindBreakpoints(self, similarities)
          /\ args' = [self |-> self, similarities |-> similarities]
          /\ pc' = "find_breakpoints"
    /\ UNCHANGED <<vs, disk, bmVars, normVars, hyVars>>

ChunkerMergeSmall ==
    /\ pc = "idle"
    /\ \E self \in Chunkers, sentences \in SentenceLists :
          \E breakpoints \in BreakpointLists(Len(sentences)) :
             /\ out' = MergeSmallChunks(self, sentences, breakpoints)
             /\ args' = [self |-> self, sentences |-> sentences, breakpoints |-> breakpoints]
             /\ pc' = "merge_small"
    /\ UNCHANGED <<vs, disk, bmVars, normVars, hyVars>>

MaxChunkSize == 4

(* processors with small sizes, and the default one; the calls made are    *)
(* those whose chunk_size in effect is above the overlap in effect         *)
SimpleProcessors ==
    {DocumentProcessorNew(c, o, 500) : c \in 1..MaxChunkSize, o \in 0..(MaxChunkSize - 1)}
        \cup {DocumentProcessorNew(DefaultChunkSize, DefaultChunkOverlap, 500)}

SizeArgs ==
    {<<NoArg, NoArg>>}
        \cup {<<Arg(c), Arg(o)>> : c \in 1..MaxChunkSize, o \in 0..(MaxChunkSize - 1)}

SimpleChunkInputs ==
    {<<self, text, NoArg, NoArg>> : self \in SimpleProcessors, text \in Texts}
        \cup {<<DocumentProcessorNew(DefaultChunkSize, DefaultChunkOverlap, 500),
                text, a[1], a[2]>> : text \in Texts, a \in SizeArgs}

ProcessorSimpleChunk ==
    /\ pc = "idle"
    /\ \E in \in SimpleChunkInputs :
          /\ ChunkSizeOrDefault(in[1], in[3]) > OverlapOrDefault(in[1], in[4])
          /\ \E r \in {SimpleChunk(in[1], in[2], in[3], in[4])} :
                /\ out' = r.chunks
                /\ args' = [self |-> in[1], text |-> in[2], chunk_size |-> in[3],
                            overlap |-> in[4], windows |-> r.windows]
                /\ pc' = IF r.hangs THEN "simple_chunk_hangs" ELSE "simple_chunk"
    /\ UNCHANGED <<vs, disk, bmVars, normVars, hyVars>>

NextChunk ==
    \/ ChunkerChunk \/ ChunkerSplitLarge \/ ChunkerChunkWithOverlap \/ ProcessorChunkText
    \/ ChunkerFindBreakpoints \/ ChunkerMergeSmall \/ ProcessorSimpleChunk \/ Taken

SpecChunk == InitChunk /\ [][NextChunk]_vars

-----------------------------------------------------------------------------
(* The two session memories on their own. A turn is named by a number; the *)
(* text a context call returns is the sequence of its parts.               *)

MaxTurnsCap == 2
MaxAdded == 5
MaxNumTurns == 3
ContextWindowDefault == 3

SessionMemoryNew(max_turns, context_window) ==
    [max_turns |-> max_turns, context_window |-> context_window, turns |-> <<>>]

(* deque(maxlen).append *)
DequeAppendDropNewest(buffer, maxlen, x) ==
    IF Len(buffer) >= maxlen THEN buffer ELSE buffer \o <<x>>

DequeAppend(buffer, maxlen, x) ==
    IF maxlen = 0 THEN <<>>
    ELSE IF Len(buffer) + 1 > maxlen THEN Tail(buffer \o <<x>>) ELSE buffer \o <<x>>

SessionAddTurn(self, turn) ==
    [self EXCEPT !.turns = DequeAppend(@, self.max_turns, turn)]

SessionClear(self) == [self EXCEPT !.turns = <<>>]

(* num_turns or self.context_window *)
NumTurnsOrDefault(self, num_turns) ==
    IF num_turns.given /\ num_turns.val # 0 THEN num_turns.val ELSE self.context_window

TurnPart(i, turn) == [turn_no |-> i, turn |-> turn]

ContextParts(recent) == [i \in DOMAIN recent |-> TurnPart(i, recent[i])]

(* SessionMemory.get_context_for_prompt *)
GetContextForPrompt(self, num_turns) ==
    IF self.turns = <<>> THEN <<>>
    ELSE LET recent_turns == Slice(self.turns, 0 - NumTurnsOrDefault(self, num_turns),
                                   Len(self.turns))
         IN <<"header">> \o ContextParts(recent_turns) \o <<"footer">>

(* ConversationMemory.get_context; num_turns = 3 when it is not given *)
GetContext(self, num_turns) ==
    IF self.buffer = <<>> THEN <<>>
    ELSE LET n == IF num_turns.given THEN num_turns.val ELSE ContextWindowDefault
             recent == Slice(self.buffer, 0 - n, Len(self.buffer))
         IN <<"header">> \o ContextParts(recent)

NumTurnsArgs == {NoArg} \cup {Arg(n) : n \in 0..MaxNumTurns}

(* memory holds both objects and, for each, the turns added since the last *)
(* clear; count numbers the turns                                          *)
InitMemory ==
    /\ BMInit /\ NormInit /\ StoreInit
    /\ hy = HybridNew(SemanticWeightDefault, KeywordWeightDefault, TRUE)
    /\ rag = [initialized |-> FALSE, hybrid |-> TRUE, use_memory |-> TRUE]
    /\ uploads = {}
    /\ deleted = [f \in FileNames |-> "no"]
    /\ \E max_turns \in 0..MaxTurnsCap, context_window \in 0..MaxTurnsCap :
          memory = [session |-> SessionMemoryNew(max_turns, context_window),
                    conversation |-> ConversationMemoryNew(max_turns),
                    session_added |-> <<>>, conversation_added |-> <<>>, count |-> 0]
    /\ pc = "idle"

MemSessionAddTurn ==
    /\ pc = "idle"
    /\ memory.count < MaxAdded
    /\ memory' = [memory EXCEPT !.session = SessionAddTurn(@, memory.count + 1),
                                !.session_added = @ \o <<memory.count + 1>>,
                                !.count = @ + 1]
    /\ pc' = "session_add_turn"
    /\ UNCHANGED <<vs, disk, hy, rag, uploads, deleted, out, args, bmVars, normVars>>

MemConversationAddTurn ==
    /\ pc = "idle"
    /\ memory.count < MaxAdded
    /\ memory' = [memory EXCEPT !.conversation = AddTurn(@, memory.count + 1),
                                !.conversation_added = @ \o <<memory.count + 1>>,
                                !.count = @ + 1]
    /\ pc' = "conversation_add_turn"
    /\ UNCHANGED <<vs, disk, hy, rag, uploads, deleted, out, args, bmVars, normVars>>

MemSessionClear ==
    /\ pc = "idle"
    /\ memory' = [memory EXCEPT !.session = SessionClear(@), !.session_added = <<>>]
    /\ pc' = "session_clear"
    /\ UNCHANGED <<vs, disk, hy, rag, uploads, deleted, out, args, bmVars, normVars>>

MemConversationClear ==
    /\ pc = "idle"
    /\ memory' = [memory EXCEPT !.conversation = ConversationClear(@),
                                !.conversation_added = <<>>]
    /\ pc' = "conversation_clear"
    /\ UNCHANGED <<vs, disk, hy, rag, uploads, deleted, out, args, bmVars, normVars>>

MemGetContextForPrompt ==
    /\ pc = "idle"
    /\ \E num_turns \in NumTurnsArgs :
          /\ out' = GetContextForPrompt(memory.session, num_turns)
          /\ args' = [num_turns |-> num_turns]
    /\ pc' = "get_context_for_prompt"
    /\ UNCHANGED <<vs, disk, bmVars, normVars, hyVars>>

MemGetContext ==
    /\ pc = "idle"
    /\ \E num_turns \in NumTurnsArgs :
          /\ out' = GetContext(memory.conversation, num_turns)
          /\ args' = [num_turns |-> num_turns]
    /\ pc' = "get_context"
    /\ UNCHANGED <<vs, disk, bmVars, normVars, hyVars>>

NextMemory ==
    \/ MemSessionAddTurn \/ MemConversationAddTurn \/ MemSessionClear
    \/ MemConversationClear \/ MemGetContextForPrompt \/ MemGetContext \/ Taken

SpecMemory == InitMemory /\ [][NextMemory]_vars

-----------------------------------------------------------------------------
(* Properties of the scorer *)

DocTokens(d) == Tokenize(Title(d) \o Content(d))

Count(s, x) == Cardinality({i \in DOMAIN s : s[i] = x})

NonIncreasing(keys) == \A i \in DOMAIN keys : \A j \in DOMAIN keys : i < j => keys[i] >= keys[j]

OutIds == [i \in DOMAIN bmOut |-> bmOut[i][1]]

(* C6: score returns one (id, score) pair per fitted document, zero scores *)
(* included, in non-increasing order of score, for every query.           *)
C6_ScoreCoversCorpusSorted ==
    /\ pc # "raised"
    /\ pc = "score" =>
          /\ Len(bmOut) = Len(bmDocs)
          /\ \A d \in DocIds : Count(OutIds, d) = Count(bmDocs, d)
          /\ NonIncreasing(PairScores(bmOut))

C6_Witness ==
    /\ pc = "score"
    /\ Len(bmOut) = 3
    /\ bmOut[1][2] > bmOut[2][2]
    /\ bmOut[2][2] > 0
    /\ bmOut[3][2] = 0

UnknownQuery(query, documents) ==
    \A t \in Range(Tokenize(query)) : \A d \in Range(documents) : t \notin Range(DocTokens(d))

(* C7: on a non-empty fitted corpus, a query that is empty or whose tokens *)
(* occur in no document scores every document exactly 0, returns the ids  *)
(* of the full corpus, and raises nothing.                                *)
C7_UnknownQueryAllZero ==
    (pc \in {"score", "raised"} /\ bmDocs # <<>> /\ UnknownQuery(bmQuery, bmDocs)) =>
        /\ pc = "score"
        /\ \A i \in DOMAIN bmOut : bmOut[i][2] = 0
        /\ Range(OutIds) = Range(bmDocs)
        /\ Len(bmOut) = Len(bmDocs)

C7_Witness ==
    /\ pc = "score"
    /\ bmQuery = <<"whois", "zzz">>
    /\ Len(bmDocs) = 2
    /\ bmDocs[1] # bmDocs[2]
    /\ UnknownQuery(bmQuery, bmDocs)
    /\ Len(bmOut) = 2

(* C8: after fit(B), whatever was fitted before, the scorer's state is the *)
(* state fit(B) gives a new scorer, and score answers as that scorer does. *)
C8_FitReplacesState ==
    /\ pc = "fit" => bm25 = BM25Fit(BM25New, bmDocs)
    /\ pc = "score" => bmOut = BM25Score(BM25Fit(BM25New, bmDocs), bmQuery)

C8_Witness ==
    /\ pc = "score"
    /\ bmFits = 2
    /\ bmDocs = <<"b2">>
    /\ bmQuery = <<"DNS", "pay">>
    /\ bmOut # <<>>

(* C9: _normalize_scores maps min to 0.0 and max to 1.0 when they differ,  *)
(* keeps every value in [0,1] and the order of the inputs; all-equal lists *)
(* map to all 0.5 and the empty list to the empty list.                    *)
C9_NormalizeContract ==
    pc = "normalize" =>
        /\ Len(normOut) = Len(normIn)
        /\ normIn = <<>> => normOut = <<>>
        /\ (normIn # <<>> /\ SeqMin(normIn) = SeqMax(normIn)) =>
              \A i \in DOMAIN normOut : normOut[i] = Half
        /\ (normIn # <<>> /\ SeqMin(normIn) # SeqMax(normIn)) =>
              \A i \in DOMAIN normIn :
                  /\ 0 <= normOut[i] /\ normOut[i] <= One
                  /\ normIn[i] = SeqMin(normIn) => normOut[i] = 0
                  /\ normIn[i] = SeqMax(normIn) => normOut[i] = One
                  /\ \A j \in DOMAIN normIn : normIn[i] <= normIn[j] => normOut[i] <= normOut[j]

C9_Witness ==
    /\ pc = "normalize"
    /\ Len(normIn) = 3
    /\ \E i \in DOMAIN normOut : 0 < normOut[i] /\ normOut[i] < One

-----------------------------------------------------------------------------
(* Properties of the vector store *)

OutScores == [i \in DOMAIN out |-> out[i].score]

(* C1: search(query, top_k = k, threshold = min_score) returns at most k   *)
(* results, in non-increasing order of score, none of them below min_score *)
C1_SearchAtMostKSortedAboveMin ==
    pc = "search" =>
        /\ args.top_k.given => Len(out) <= args.top_k.val
        /\ NonIncreasing(OutScores)
        /\ args.threshold.given => \A i \in DOMAIN out : out[i].score >= args.threshold.val

(* what does hold: the bound is top_k when top_k >= 1, and the default     *)
(* top_k_results when top_k is 0 or None                                   *)
C1_SearchAtMostEffectiveK ==
    pc = "search" =>
        /\ Len(out) <= TopKOrDefault(args.top_k)
        /\ NonIncreasing(OutScores)
        /\ \A i \in DOMAIN out : out[i].score >= ThresholdOrDefault(args.threshold)

(* C10: save, then load into a new instance: the same passage ids in the   *)
(* same order, the same document count, the same number of vectors        *)
C10_SaveLoadRoundTrip ==
    (pc = "load_fresh" /\ disk.intact) =>
        /\ out.documents = disk.saved_ids
        /\ Len(out.documents) = Len(disk.saved_ids)
        /\ NTotal(out) = disk.saved_ntotal

C10_Witness ==
    /\ pc = "load_fresh"
    /\ disk.intact
    /\ Len(out.documents) = 3
    /\ out.documents[1] # out.documents[2]
    /\ vs.documents # out.documents

(* C11: load with the directory missing, or holding only one of the two    *)
(* files, leaves the store exactly as it was                               *)
C11_LoadNeedsBothArtifacts ==
    [][(StoreLoad /\ ~(disk.has_index /\ disk.has_documents)) => vs' = vs]_vars

(* what does hold: load with neither file in the directory changes nothing *)
C11_LoadMissingDirectoryNoOp ==
    [][(StoreLoad /\ ~disk.has_index /\ ~disk.has_documents) => vs' = vs]_vars

(* C12: after any adds (failed and empty ones too) and clears, the number  *)
(* of vectors is the number of passages, vector i is passage i's, and both *)
(* are zero right after clear; add_documents([]) returns 0                 *)
C12_VectorsInLockstep ==
    /\ NTotal(vs) = Len(vs.documents)
    /\ vs.index.vecs = vs.documents
    /\ pc = "clear" => (NTotal(vs) = 0 /\ Len(vs.documents) = 0)
    /\ (pc = "add" /\ args.documents = <<>>) => (args.returned = 0 /\ vs = args.before)
    /\ pc = "add_raised" => vs = args.before

C12_Witness ==
    /\ pc = "add_raised"
    /\ Len(vs.documents) = 2
    /\ Len(args.documents) = 1

IsPrefix(s, t) == Len(s) <= Len(t) /\ SubSeq(t, 1, Len(s)) = s

(* C20: initialize_vector_store(docs) on an existing singleton, without    *)
(* force_reinit, keeps every stored passage and adds exactly the docs      *)
(* whose id is not stored, so a second call with the same docs leaves      *)
(* the count unchanged; with force_reinit the store holds exactly docs     *)
C20_InitializeVectorStoreIdempotent ==
    pc = "initialize_store" =>
        /\ (args.exists /\ ~args.force_reinit) =>
              /\ IsPrefix(args.before.documents, vs.documents)
              /\ \A d \in Range(args.documents) :
                    Count(vs.documents, d) =
                        IF d \in Range(args.before.documents)
                        THEN Count(args.before.documents, d)
                        ELSE Count(args.documents, d)
              /\ Range(vs.documents) = Range(args.before.documents) \cup Range(args.documents)
        /\ args.force_reinit => vs.documents = args.documents
        /\ Len(InitializeVectorStore(vs, TRUE, args.documents, FALSE, FALSE).documents)
              = Len(vs.documents)
        /\ NTotal(vs) = Len(vs.documents)

C20_Witness ==
    /\ pc = "initialize_store"
    /\ args.exists /\ ~args.force_reinit
    /\ Len(args.before.documents) = 1
    /\ Len(args.documents) = 2
    /\ Len(vs.documents) = 2

(* C17: a store never holds an index whose dimension is not the store's    *)
(* own: loading an index of another dimension fails in load                *)
C17_IndexDimensionIsStoreDimension ==
    /\ vs.index.d = vs.dimension
    /\ pc = "load_fresh" => out.index.d = out.dimension

-----------------------------------------------------------------------------
(* Properties of the hybrid ranker *)

(* C3: for top_k >= 1, search returns at most top_k results, with and      *)
(* without reranking                                                       *)
C3_HybridAtMostTopK ==
    (pc = "hybrid_search" /\ args.top_k >= 1) => Len(out) <= args.top_k

C3_Witness ==
    /\ pc = "hybrid_search"
    /\ hy.use_reranking
    /\ args.top_k = 1
    /\ Len(out) = 1
    /\ Cardinality(hy.doc_map) = 4

(* C4: search on a ranker that has not indexed anything returns the empty  *)
(* list, raises nothing, and queries neither the vector index, nor the     *)
(* keyword scorer, nor the embedding provider                              *)
C4_UninitializedSearchEmpty ==
    (pc \in {"hybrid_search", "hybrid_search_raised"} /\ ~hy.initialized) =>
        /\ pc = "hybrid_search"
        /\ out = <<>>
        /\ args.calls = {}

C4_Witness ==
    /\ pc = "hybrid_search"
    /\ ~hy.initialized
    /\ bm25 = BM25New
    /\ NTotal(vs) > 0
    /\ args.top_k = 2

(* C5 as claimed: each result's combined score is >= that of the next      *)
C5_CombinedNonIncreasing ==
    pc = "hybrid_search" => NonIncreasing(CombinedScores(out))

(* C5 amended: the order is by combined score when reranking is disabled   *)
(* and by rerank score when it is enabled                                  *)
C5_OrderedByFinalScore ==
    pc = "hybrid_search" =>
        /\ ~hy.use_reranking => NonIncreasing(CombinedScores(out))
        /\ hy.use_reranking => NonIncreasing(RerankScores(out))

C5_Witness ==
    /\ pc = "hybrid_search"
    /\ ~hy.use_reranking
    /\ Len(out) = 2
    /\ out[1].combined_score > out[2].combined_score
    /\ out[2].combined_score > 0

-----------------------------------------------------------------------------
(* Properties of the pipeline *)

(* C2: once the pipeline is initialized in hybrid mode, a document         *)
(* uploaded with index_immediately is in the vector index and in the       *)
(* corpus of the keyword scorer and of the hybrid ranker                   *)
C2_UploadReachesRanker ==
    (pc = "upload" /\ args.index_immediately /\ rag.initialized /\ rag.hybrid) =>
        \A d \in Range(FileChunks(args.file)) :
            /\ d \in Range(vs.documents)
            /\ d \in hy.doc_map
            /\ d \in Range(bm25.doc_ids)

(* what the code does: a passage outside the ranker's _doc_map is never    *)
(* returned in hybrid mode                                                 *)
C2_HybridReturnsOnlyDocMap ==
    (pc = "retrieve" /\ rag.hybrid) => \A i \in DOMAIN out : out[i].id \in hy.doc_map

(* C18: once a file is deleted and reindex_all has completed, no chunk of  *)
(* that file is returned by retrieve_context, in hybrid or semantic mode   *)
C18_DeletedFileNotRetrieved ==
    pc = "retrieve" =>
        \A f \in FileNames : deleted[f] = "reindexed" =>
            \A i \in DOMAIN out : out[i].id \notin Range(FileChunks(f))

(* what does hold: in semantic mode the deleted file's chunks are gone *)
C18_DeletedFileNotRetrievedSemantic ==
    (pc = "retrieve" /\ ~rag.hybrid) =>
        \A f \in FileNames : deleted[f] = "reindexed" =>
            \A i \in DOMAIN out : out[i].id \notin Range(FileChunks(f))

(* C19: when the LLM raises in resolve_ticket the call returns the fixed   *)
(* fallback response, raises nothing, and leaves short-term and long-term  *)
(* memory as they were                                                     *)
C19_LLMFailureFallback ==
    (pc \in {"resolve", "resolve_raised"} /\ args.llm_raised) =>
        /\ pc = "resolve"
        /\ out = FallbackResponse
        /\ out.references = <<>> /\ out.action_required = "escalate_to_technical"
        /\ memory = args.before

C19_Witness ==
    /\ pc = "resolve"
    /\ args.llm_raised
    /\ args.store_in_memory
    /\ rag.use_memory
    /\ Len(memory.short_term.buffer) = 1

-----------------------------------------------------------------------------
(* Properties of the chunkers *)

Sentences == TokenizeSentences(args.text)

(* C13: chunk returns [] for a text without sentences and, for a text of   *)
(* one sentence, one chunk with range [0, 1) whose text equals the input   *)
(* text; the embedding provider is not called and nothing is raised        *)
C13_ShortTextChunkIsInput ==
    /\ (pc = "chunk_raised") => Len(Sentences) >= 2
    /\ (pc = "chunk" /\ Len(Sentences) = 0) => (out = <<>> /\ args.calls = {})
    /\ (pc = "chunk" /\ Len(Sentences) = 1) =>
          /\ Len(out) = 1
          /\ out[1].text = args.text
          /\ out[1].start_sentence_idx = 0 /\ out[1].end_sentence_idx = 1
          /\ args.calls = {}

(* C13 as the code has it: the one chunk's text is the sentence, which is  *)
(* the input with every run of whitespace made one space and the           *)
(* whitespace at both ends removed                                         *)
C13_ShortTextChunkIsSentence ==
    /\ (pc = "chunk_raised") => Len(Sentences) >= 2
    /\ (pc = "chunk" /\ Len(Sentences) = 0) => (out = <<>> /\ args.calls = {})
    /\ (pc = "chunk" /\ Len(Sentences) = 1) =>
          /\ Len(out) = 1
          /\ out[1].text = CleanText(args.text)
          /\ out[1].start_sentence_idx = 0 /\ out[1].end_sentence_idx = 1
          /\ args.calls = {}

C13_Witness ==
    /\ pc = "chunk"
    /\ Len(Sentences) = 1
    /\ args.embed_fails
    /\ Len(out) = 1
    /\ out[1].text # args.text
    /\ Len(out[1].text) = 3

SegmentLen(i) == out[i][2] - out[i][1]

(* C14: after _split_large_chunks a segment of more than one sentence has  *)
(* joined text of at most max_chunk_size characters; the segments are      *)
(* whole sentences in order; only a single sentence can exceed the limit   *)
C14_SplitSegmentsWithinLimit ==
    pc = "split_large" =>
        /\ \A i \in DOMAIN out :
              /\ SegmentLen(i) >= 1
              /\ SegmentLen(i) > 1 =>
                    Len(Join(args.sentences, out[i][1], out[i][2])) <= args.self.max_chunk_size
        /\ out[1][1] = 0 /\ out[Len(out)][2] = Len(args.sentences)
        /\ \A i \in 1..(Len(out) - 1) : out[i][2] = out[i + 1][1]

(* what does hold: the limit is kept by the sentences' own characters, the *)
(* joining spaces not counted                                              *)
C14_SplitSegmentsWithinLimitUnjoined ==
    pc = "split_large" =>
        /\ \A i \in DOMAIN out :
              /\ SegmentLen(i) >= 1
              /\ SegmentLen(i) > 1 =>
                    TextLen(args.sentences, out[i][1], out[i][2]) <= args.self.max_chunk_size
        /\ out[1][1] = 0 /\ out[Len(out)][2] = Len(args.sentences)
        /\ \A i \in 1..(Len(out) - 1) : out[i][2] = out[i + 1][1]

(* C15: with overlap_sentences >= 1 and two base chunks or more, as many   *)
(* chunks as base chunks; each range contains its base range, stays within *)
(* the previous base chunk's start and the next one's end, and is at most  *)
(* overlap_sentences longer on each side                                   *)
C15_OverlapStaysInNeighbours ==
    (pc = "chunk_with_overlap" /\ args.overlap_sentences >= 1 /\ Len(args.base_chunks) >= 2) =>
        /\ Len(out) = Len(args.base_chunks)
        /\ \A i \in DOMAIN out :
              LET base == args.base_chunks[i]
              IN /\ out[i].start_sentence_idx <= base.start_sentence_idx
                 /\ out[i].end_sentence_idx >= base.end_sentence_idx
                 /\ base.start_sentence_idx - out[i].start_sentence_idx <= args.overlap_sentences
                 /\ out[i].end_sentence_idx - base.end_sentence_idx <= args.overlap_sentences
                 /\ i > 1 => out[i].start_sentence_idx >= args.base_chunks[i - 1].start_sentence_idx
                 /\ i < Len(out) =>
                       out[i].end_sentence_idx <= args.base_chunks[i + 1].end_sentence_idx

C15_Witness ==
    /\ pc = "chunk_with_overlap"
    /\ args.overlap_sentences = 2
    /\ Len(args.base_chunks) >= 3
    /\ out[3].start_sentence_idx = args.base_chunks[3].start_sentence_idx - 1
    /\ out[1].end_sentence_idx = args.base_chunks[1].end_sentence_idx + 1

(* C16: chunk_text raises nothing when the semantic chunker raises: it     *)
(* returns what the simple chunker makes of the same text                  *)
C16_ChunkTextFallsBack ==
    /\ pc # "chunk_text_raised"
    /\ (pc = "chunk_text" /\ args.semantic_raised) =>
          out = SimpleChunk(args.self, args.text, NoArg, NoArg).chunks

C16_Witness ==
    /\ pc = "chunk_text"
    /\ args.semantic_raised
    /\ Len(out) >= 2

-----------------------------------------------------------------------------
(* Properties of the session memories *)

(* the last k elements of s *)
LastN(s, k) == SubSeq(s, Len(s) - k + 1, Len(s))

(* C21: after any sequence of add_turn and clear calls, SessionMemory and  *)
(* ConversationMemory hold at most max_turns turns, and exactly the most   *)
(* recent min(n, max_turns) of the n turns added since the last clear, in  *)
(* insertion order.                                                        *)
C21_MemoryKeepsMostRecent ==
    "session" \in DOMAIN memory =>
        /\ Len(memory.session.turns) <= memory.session.max_turns
        /\ memory.session.turns =
               LastN(memory.session_added,
                     Min2(Len(memory.session_added), memory.session.max_turns))
        /\ Len(memory.conversation.buffer) <= memory.conversation.max_turns
        /\ memory.conversation.buffer =
               LastN(memory.conversation_added,
                     Min2(Len(memory.conversation_added), memory.conversation.max_turns))

(* both memories have evicted a turn *)
C21_Witness ==
    /\ "session" \in DOMAIN memory
    /\ memory.session.max_turns >= 1
    /\ Len(memory.session_added) > memory.session.max_turns
    /\ Len(memory.conversation_added) > memory.conversation.max_turns
    /\ memory.count > Len(memory.session_added) + Len(memory.conversation_added)

(* the turns a returned context includes, in the order it lists them *)
IncludedTurns ==
    LET parts == IF pc = "get_context_for_prompt" THEN SubSeq(out, 2, Len(out) - 1)
                 ELSE SubSeq(out, 2, Len(out))
    IN [i \in DOMAIN parts |-> parts[i].turn]

(* the turns stored in the memory the call was made on *)
StoredTurns ==
    IF pc = "get_context_for_prompt" THEN memory.session.turns
    ELSE memory.conversation.buffer

(* the number of turns asked for: SessionMemory reads context_window when  *)
(* num_turns is omitted                                                    *)
AskedTurns ==
    IF args.num_turns.given THEN args.num_turns.val
    ELSE IF pc = "get_context_for_prompt" THEN memory.session.context_window
    ELSE ContextWindowDefault

(* C22: get_context_for_prompt(num_turns) and get_context(num_turns)       *)
(* include exactly the last min(num_turns, stored) turns, oldest first,    *)
(* for every num_turns >= 0, and return the empty string when no turn is   *)
(* stored; SessionMemory uses context_window when num_turns is omitted.    *)
C22_ContextHasLastNumTurns ==
    pc \in {"get_context_for_prompt", "get_context"} =>
        IF StoredTurns = <<>> THEN out = <<>>
        ELSE /\ out # <<>>
             /\ IncludedTurns = LastN(StoredTurns, Min2(AskedTurns, Len(StoredTurns)))
             /\ \A i \in DOMAIN IncludedTurns : out[i + 1].turn_no = i

(* C22, for a positive number of turns: the same statement when the number *)
(* of turns asked for (num_turns, or the context_window read in its place) *)
(* is at least 1.                                                          *)
C22_ContextHasLastPositiveNumTurns ==
    (/\ pc \in {"get_context_for_prompt", "get_context"}
     /\ AskedTurns >= 1
     /\ args.num_turns.given => args.num_turns.val >= 1) =>
        IF StoredTurns = <<>> THEN out = <<>>
        ELSE /\ out # <<>>
             /\ IncludedTurns = LastN(StoredTurns, Min2(AskedTurns, Len(StoredTurns)))
             /\ \A i \in DOMAIN IncludedTurns : out[i + 1].turn_no = i

-----------------------------------------------------------------------------
(* Properties of breakpoint detection and merging *)

(* strictly ascending: sorted and without duplicates *)
StrictlyAscending(s) == \A i, j \in DOMAIN s : i < j => s[i] < s[j]

(* C23: _find_breakpoints returns, sorted ascending and without            *)
(* duplicates, exactly the indices i with similarity[i] below the          *)
(* threshold, or interior with similarity[i] strictly lower than both      *)
(* neighbours and below the threshold + 0.1; the empty list for an empty   *)
(* similarity sequence.                                                    *)
C23_FindBreakpointsContract ==
    pc = "find_breakpoints" =>
        LET sim == args.similarities
            n == Len(sim)
            thr == args.self.similarity_threshold
            IsBreak(i) ==
                \/ sim[i + 1] < thr
                \/ /\ i >= 1 /\ i <= n - 2
                   /\ sim[i + 1] < sim[i] /\ sim[i + 1] < sim[i + 2]
                   /\ sim[i + 1] < thr + 100
        IN /\ StrictlyAscending(out)
           /\ Range(out) = {i \in 0..(n - 1) : IsBreak(i)}
           /\ n = 0 => out = <<>>

(* a local minimum at or above the threshold is a breakpoint next to one   *)
(* that is below it                                                        *)
C23_Witness ==
    /\ pc = "find_breakpoints"
    /\ Len(out) >= 2
    /\ \E k \in DOMAIN out :
          /\ args.similarities[out[k] + 1] >= args.self.similarity_threshold
          /\ \E m \in DOMAIN out : args.similarities[out[m] + 1] < args.self.similarity_threshold

(* C24: _merge_small_chunks returns contiguous, non-empty, ascending       *)
(* ranges that partition [0, n); every range but the last has a total      *)
(* sentence length of at least min_chunk_size; with no breakpoints the     *)
(* result is the single range (0, n).                                      *)
C24_MergeSmallChunksContract ==
    pc = "merge_small" =>
        LET n == Len(args.sentences)
        IN /\ Len(out) >= 1
           /\ out[1][1] = 0
           /\ out[Len(out)][2] = n
           /\ \A i \in DOMAIN out : out[i][1] < out[i][2]
           /\ \A i \in 1..(Len(out) - 1) :
                 /\ out[i][2] = out[i + 1][1]
                 /\ TextLen(args.sentences, out[i][1], out[i][2]) >= args.self.min_chunk_size
           /\ args.breakpoints = <<>> => out = << <<0, n>> >>

(* a small segment was folded into the next one, and the last range is     *)
(* below the minimum                                                       *)
C24_Witness ==
    /\ pc = "merge_small"
    /\ Len(out) >= 2
    /\ Len(out) < Len(args.breakpoints) + 1
    /\ TextLen(args.sentences, out[Len(out)][1], out[Len(out)][2]) < args.self.min_chunk_size

(* C30: for a text of at least two sentences, the sentence ranges of the   *)
(* chunks that chunk returns are non-empty, ascending, disjoint and cover  *)
(* every sentence index of [0, n) exactly once, and each chunk's text is   *)
(* its sentences joined by single spaces.                                  *)
C30_ChunkRangesCoverSentences ==
    (pc = "chunk" /\ Len(Sentences) >= 2) =>
        LET n == Len(Sentences)
        IN /\ Len(out) >= 1
           /\ out[1].start_sentence_idx = 0
           /\ out[Len(out)].end_sentence_idx = n
           /\ \A i \in DOMAIN out :
                 /\ out[i].start_sentence_idx < out[i].end_sentence_idx
                 /\ out[i].text = Join(Sentences, out[i].start_sentence_idx,
                                       out[i].end_sentence_idx)
           /\ \A i \in 1..(Len(out) - 1) :
                 out[i].end_sentence_idx = out[i + 1].start_sentence_idx
           /\ \A k \in 0..(n - 1) :
                 Cardinality({i \in DOMAIN out : /\ out[i].start_sentence_idx <= k
                                                 /\ k < out[i].end_sentence_idx}) = 1

(* a text of three sentences or more came back as several chunks, one of   *)
(* them made by splitting a segment over max_chunk_size                    *)
C30_Witness ==
    /\ pc = "chunk"
    /\ Len(Sentences) >= 3
    /\ Len(out) >= 2
    /\ \E i \in DOMAIN out : out[i].end_sentence_idx - out[i].start_sentence_idx >= 2
    /\ \E i \in DOMAIN out : Len(out[i].text) > args.self.max_chunk_size

-----------------------------------------------------------------------------
(* Properties of the fallback chunker *)

(* C28: _simple_chunk terminates for every text and every chunk_size above *)
(* the overlap: its start position strictly increases on each iteration,   *)
(* no part of the text is skipped and every chunk has at most chunk_size   *)
(* characters.                                                             *)
C28_SimpleChunkTerminates ==
    pc \in {"simple_chunk", "simple_chunk_hangs"} =>
        LET w == args.windows
            n == Len(CleanText(args.text))
        IN /\ pc = "simple_chunk"
           /\ \A i \in 1..(Len(w) - 1) :
                 /\ w[i + 1][1] > w[i][1]
                 /\ w[i + 1][1] <= w[i][2]
           /\ w # <<>> => w[1][1] = 0 /\ w[Len(w)][2] >= n
           /\ \A i \in DOMAIN out :
                 Len(out[i]) <= ChunkSizeOrDefault(args.self, args.chunk_size)

(* C28, the part about sizes: every chunk of a call that returns has at    *)
(* most chunk_size characters.                                             *)
C28_ChunksWithinSize ==
    pc = "simple_chunk" =>
        \A i \in DOMAIN out : Len(out[i]) <= ChunkSizeOrDefault(args.self, args.chunk_size)

(* C28, for an overlap of at most 2, the length of a separator: the call   *)
(* returns and its start positions strictly increase without a gap.        *)
C28_SmallOverlapTerminates ==
    (/\ pc \in {"simple_chunk", "simple_chunk_hangs"}
     /\ OverlapOrDefault(args.self, args.overlap) <= 2) =>
        LET w == args.windows
        IN /\ pc = "simple_chunk"
           /\ \A i \in 1..(Len(w) - 1) :
                 /\ w[i + 1][1] > w[i][1]
                 /\ w[i + 1][1] <= w[i][2]

-----------------------------------------------------------------------------
(* C29: score never divides by zero after any fit: when avg_doc_length is  *)
(* 0 the idf table is empty, so the formula is never evaluated; otherwise  *)
(* the divisor avg_doc_length and the BM25 denominator of every document   *)
(* and term are positive; fit on the empty list followed by score of any   *)
(* query returns the empty list.                                           *)
C29_ScoreNeverDividesByZero ==
    /\ bm25.avg_doc_length[2] >= 1
    /\ bm25.avg_doc_length[1] = 0 => DOMAIN bm25.idf = {}
    /\ bm25.avg_doc_length[1] # 0 =>
          /\ bm25.avg_doc_length[1] > 0
          /\ \A i \in DOMAIN bm25.corpus : \A t \in DOMAIN bm25.idf :
                Denominator(bm25, i, TermFreq(bm25.corpus[i], t)) > 0
    /\ pc # "raised"
    /\ (pc = "score" /\ bmDocs = <<>>) => bmOut = <<>>

(* a corpus of documents without tokens was fitted after another corpus    *)
(* and scored with a query that has tokens                                 *)
C29_Witness ==
    /\ pc = "score"
    /\ bmFits >= 2
    /\ bmDocs # <<>>
    /\ bm25.avg_doc_length[1] = 0
    /\ bmQuery # <<>>
    /\ Len(bmOut) = Len(bmDocs)

-----------------------------------------------------------------------------
(* Properties of the hybrid ranker's index and results *)

(* C25: after index_documents(D) returns, the keyword scorer is fitted on  *)
(* exactly D and every passage of D is in the ranker's vector index,       *)
(* whatever the vector index held before the call.                         *)
C25_IndexDocumentsIndexesAll ==
    pc = "index" =>
        /\ bm25 = BM25Fit(BM25New, args.documents)
        /\ Range(args.documents) \subseteq Range(vs.documents)

(* C25, on an empty vector index: the same statement for calls that find   *)
(* the vector index without passages.                                      *)
C25_IndexDocumentsIndexesAllWhenEmpty ==
    (pc = "index" /\ args.store_was_empty) =>
        /\ bm25 = BM25Fit(BM25New, args.documents)
        /\ vs.documents = args.documents
        /\ NTotal(vs) = Len(args.documents)

(* C25, the scorer: index_documents always refits the keyword scorer and   *)
(* replaces the passage map.                                               *)
C25_IndexDocumentsRefitsScorer ==
    pc = "index" =>
        /\ bm25 = BM25Fit(BM25New, args.documents)
        /\ hy.doc_map = Range(args.documents)
        /\ hy.initialized

(* C26: for every list search returns, to_retrieved_context succeeds and   *)
(* returns one context per result in the same order, whose score is the    *)
(* rerank score when reranking populated it and the combined score         *)
(* otherwise, and is at least 0.                                           *)
C26_ToRetrievedContextBestScore ==
    pc \in {"to_retrieved_context", "to_retrieved_context_raised"} =>
        /\ pc = "to_retrieved_context"
        /\ Len(out) = Len(args.results)
        /\ \A i \in DOMAIN out :
              /\ out[i].id = args.results[i].id
              /\ out[i].score = IF args.results[i].reranked THEN args.results[i].rerank_score
                                ELSE args.results[i].combined_score
              /\ out[i].score >= 0

(* C26, for positive rerank scores: the same statement for result lists    *)
(* whose rerank scores, where populated, are above 0.                      *)
C26_ToRetrievedContextPositiveRerank ==
    (/\ pc \in {"to_retrieved_context", "to_retrieved_context_raised"}
     /\ \A i \in DOMAIN args.results :
           args.results[i].reranked => args.results[i].rerank_score > 0) =>
        /\ pc = "to_retrieved_context"
        /\ Len(out) = Len(args.results)
        /\ \A i \in DOMAIN out :
              /\ out[i].id = args.results[i].id
              /\ out[i].score = IF args.results[i].reranked THEN args.results[i].rerank_score
                                ELSE args.results[i].combined_score
              /\ out[i].score >= 0

(* the candidates of the search just made: the vector store's results and  *)
(* the truncated keyword scores with their normalised values               *)
VectorCandidates == args.semantic_results

KeywordCandidates == Take(BM25Score(bm25, args.query), args.top_k * 3)

KeywordNormalized == NormalizeScores(PairScores(KeywordCandidates))

VectorIds == {VectorCandidates[i].id : i \in DOMAIN VectorCandidates}

KeywordIds == {KeywordCandidates[i][1] : i \in DOMAIN KeywordCandidates}

(* the scores of the fused candidates and of the returned results are      *)
(* those of the candidates, 0 where an id is absent, and no id is twice in *)
(* either list                                                             *)
FusedScoresRight ==
    /\ \A i, j \in DOMAIN args.fused : i # j => args.fused[i].id # args.fused[j].id
    /\ \A i, j \in DOMAIN out : i # j => out[i].id # out[j].id
    /\ \A i \in DOMAIN out :
          \E j \in DOMAIN args.fused :
             /\ args.fused[j].id = out[i].id
             /\ args.fused[j].semantic_score = out[i].semantic_score
             /\ args.fused[j].keyword_score = out[i].keyword_score
             /\ args.fused[j].combined_score = out[i].combined_score
    /\ \A j \in DOMAIN args.fused :
          LET f == args.fused[j]
          IN /\ \A i \in DOMAIN VectorCandidates :
                   VectorCandidates[i].id = f.id => f.semantic_score = VectorCandidates[i].score
             /\ f.id \notin VectorIds => f.semantic_score = 0
             /\ \A i \in DOMAIN KeywordCandidates :
                   KeywordCandidates[i][1] = f.id => f.keyword_score = KeywordNormalized[i]
             /\ f.id \notin KeywordIds => f.keyword_score = 0
             /\ f.combined_score = Combined(hy, f.semantic_score, f.keyword_score)

(* C27: in search, every passage id among the vector candidates or the     *)
(* truncated keyword candidates yields exactly one fused candidate, with   *)
(* its vector score (0.0 if absent), its min-max normalised keyword score  *)
(* (0.0 if absent) and the weighted sum of the two; no id appears twice in *)
(* the returned list.                                                      *)
C27_EveryCandidateFused ==
    (pc = "hybrid_search" /\ hy.initialized) =>
        /\ {args.fused[j].id : j \in DOMAIN args.fused} = VectorIds \cup KeywordIds
        /\ FusedScoresRight

(* C27, amended: every candidate id that is in the ranker's passage map    *)
(* yields exactly one fused candidate with those scores; a candidate id    *)
(* that the passage map does not hold is skipped.                          *)
C27_EveryKnownCandidateFused ==
    (pc = "hybrid_search" /\ hy.initialized) =>
        /\ {args.fused[j].id : j \in DOMAIN args.fused}
               = (VectorIds \cup KeywordIds) \cap hy.doc_map
        /\ FusedScoresRight

(* a search fused a passage found by both halves with one the vector store *)
(* did not return, and skipped a vector candidate outside the passage map  *)
C27_Witness ==
    /\ pc = "hybrid_search"
    /\ hy.initialized
    /\ \E j \in DOMAIN args.fused :
          args.fused[j].id \in VectorIds /\ args.fused[j].keyword_score > 0
    /\ \E j \in DOMAIN args.fused :
          args.fused[j].id \notin VectorIds /\ args.fused[j].keyword_score > 0
    /\ VectorIds \ hy.doc_map # {}

====
